---- MODULE Spec2Model ----
(***************************************************************************)
(* State-machine model of the draw-line physics puzzle (GamePage,          *)
(* ProgressService, LevelsService, LEVELS).                                *)
(*                                                                         *)
(* Conventions                                                             *)
(*  - A point is a pair <<x, y>> of integers (logical canvas pixels).      *)
(*  - 0 stands for JavaScript's undefined/null where the value is a body,  *)
(*    an engine, a level or a timer handle.                                *)
(*  - The scale factor is the rational n/d, kept as [n |-> .., d |-> ..].  *)
(*    The window sizes of Sizes are chosen so that every scaled            *)
(*    coordinate is an integer.                                            *)
(*  - Thresholds with a decimal point are passed in tenths (5.5 -> 55)     *)
(*    and compared on squares, so that no square root is needed.           *)
(*  - The physics engine (matter-js) is a black box: Engine.update leaves  *)
(*    the balls in place or drops them, and reports a nondeterministic     *)
(*    batch of begin-contact pairs; Bodies.fromVertices throws, returns    *)
(*    nothing, a body, or an array of bodies.                              *)
(*  - A body or an engine is its identity (a positive integer).  A new     *)
(*    one takes the least identity the page holds no reference to.         *)
(***************************************************************************)
EXTENDS Integers, Sequences, FiniteSets, TLC

VARIABLES
    pc,                   \* position of the delayed initialisation chain
    destroyed,            \* ngOnDestroy has run
    level,                \* this.level, as the level id (0: undefined)
    hasNextLevel,         \* this.hasNextLevel
    nav,                  \* last router.navigate target ("none" | "home")
    viewport,             \* window.innerWidth/innerHeight and header height
    engine,               \* this.engine / this.world (0: undefined)
    handlerEngine,        \* engine the collisionStart handler is registered on
    bodies,               \* bodies of this.world: identity -> pose
    blueBall,             \* this.blueBall (0: undefined)
    orangeBall,           \* this.orangeBall (0: undefined)
    scale,                \* (this as any).scale
    heightOffset,         \* (this as any).heightOffset
    lineSegments,         \* this.lineSegments
    isDrawing,            \* this.isDrawing
    drawingPoints,        \* this.drawingPoints
    levelComplete,        \* this.levelComplete
    showVictoryAnimation, \* this.showVictoryAnimation
    hideTimers,           \* pending 2 s timers of onLevelComplete
    resizeTimeout,        \* (this as any).resizeTimeout: "none"|"canvas"|"reinit"
    listening,            \* pointer listeners and ResizeObserver attached
    animationFrameId,     \* this.animationFrameId (0: null, 1: a handle)
    loopPending,          \* a renderLoop frame callback is queued
    storage,              \* localStorage item 'completedLevels'
    completeCalls,        \* number of ProgressService.completeLevel calls
    last,                 \* the last handler that ran, with its inputs
    call,                 \* a call of a geometry method: arguments and result
    constraints,          \* constraints of this.world: identity -> its bodies
    lineConstraints       \* this.lineConstraints of the constraint-linked page

vars == <<pc, destroyed, level, hasNextLevel, nav, viewport, engine,
          handlerEngine, bodies, blueBall, orangeBall, scale, heightOffset,
          lineSegments, isDrawing, drawingPoints, levelComplete,
          showVictoryAnimation, hideTimers, resizeTimeout, listening,
          animationFrameId, loopPending, storage, completeCalls, last, call,
          constraints, lineConstraints>>

\* the constraints of the world and their tracking list
linkVars == <<constraints, lineConstraints>>

(***************************************************************************)
(* Program constants.                                                      *)
(***************************************************************************)
MAX_SEGMENTS == 50
MIN_SEGMENT_LENGTH == 5
SEGMENT_THICKNESS == 8
\* headerHeight of setupCanvas in the constraint-linked page
HeaderHeight == 56
SimplifyTolerance == 80
CloseDistance == 55
MoveFilter == 3

(***************************************************************************)
(* Bounds of the model.                                                    *)
(***************************************************************************)
MaxPoints == 3      \* SpecBudget: points buffered by one stroke
SessionPoints == 2  \* Spec: points buffered by one stroke
MaxParts == 2       \* bodies Bodies.fromVertices returns for one stroke
MaxLive == 1        \* Spec only: a stroke starts while fewer obstacles live
MaxLinks == 2       \* SpecLinked: a stroke starts while fewer constraints
MaxLinkedLive == 2  \* SpecLinked: a stroke starts while fewer obstacles live
MaxLinkedPoints == 4 \* SpecLinked: points buffered by one stroke
MaxWins == 2        \* calls of ProgressService.completeLevel in a session

\* what a physics step does to the balls: 0 leaves them, 1 drops them
\* longest point sequence handed to a geometry method in SpecGeom
MaxGeomLen == 4

Motions == {0, 1}

\* an undefined body, engine or level
NoBody == 0
\* localStorage.getItem when nothing is stored (falsy, as the empty text)
NoItem == <<>>

Range(s) == {s[i] : i \in 1..Len(s)}

Max(a, b) == IF a > b THEN a ELSE b

(***************************************************************************)
(* Level data and LevelsService.                                           *)
(***************************************************************************)
Platform(x, y, w, h) == [x |-> x, y |-> y, width |-> w, height |-> h]

Ball(x, y, r) == [x |-> x, y |-> y, radius |-> r]

LEVELS ==
    << [id |-> 1, width |-> 800, height |-> 600,
        staticBodies |-> << Platform(400, 580, 800, 40) >>,
        blueBall |-> Ball(200, 200, 20), orangeBall |-> Ball(600, 200, 20)],
       [id |-> 2, width |-> 800, height |-> 600,
        staticBodies |-> << Platform(400, 580, 800, 40) >>,
        blueBall |-> Ball(150, 150, 20), orangeBall |-> Ball(650, 150, 20)],
       [id |-> 3, width |-> 800, height |-> 600,
        staticBodies |-> << Platform(400, 580, 800, 40),
                            Platform(200, 400, 150, 20),
                            Platform(600, 350, 150, 20) >>,
        blueBall |-> Ball(200, 300, 20), orangeBall |-> Ball(600, 250, 20)],
       [id |-> 4, width |-> 800, height |-> 600,
        staticBodies |-> << Platform(400, 580, 800, 40),
                            Platform(300, 450, 200, 20),
                            Platform(100, 350, 100, 20),
                            Platform(700, 300, 100, 20) >>,
        blueBall |-> Ball(150, 200, 20), orangeBall |-> Ball(650, 150, 20)],
       [id |-> 5, width |-> 800, height |-> 600,
        staticBodies |-> << Platform(400, 580, 800, 40),
                            Platform(150, 500, 100, 20),
                            Platform(400, 400, 200, 20),
                            Platform(650, 300, 100, 20) >>,
        blueBall |-> Ball(100, 350, 20), orangeBall |-> Ball(700, 200, 20)] >>

getLevels == LEVELS

\* LEVELS.find(level => level.id === id), as the id found (0: undefined)
getLevelById(id) ==
    IF \E i \in 1..Len(LEVELS) : LEVELS[i].id = id
    THEN LEVELS[CHOOSE i \in 1..Len(LEVELS) :
                    /\ LEVELS[i].id = id
                    /\ \A j \in 1..(i - 1) : LEVELS[j].id # id].id
    ELSE 0

\* the descriptor this.level refers to
Lvl(id) == LEVELS[CHOOSE i \in 1..Len(LEVELS) : LEVELS[i].id = id]

(***************************************************************************)
(* ProgressService over localStorage.                                      *)
(***************************************************************************)
\* Strings are sequences of characters.
Digits == <<"0", "1", "2", "3", "4", "5", "6", "7", "8", "9">>

IsDigit(c) == \E i \in 1..10 : Digits[i] = c

DigitValue(c) == (CHOOSE i \in 1..10 : Digits[i] = c) - 1

NaN == -1

RECURSIVE NumberChars(_)
\* the decimal text of a natural number
NumberChars(n) ==
    IF n < 10
    THEN <<Digits[n + 1]>>
    ELSE NumberChars(n \div 10) \o <<Digits[(n % 10) + 1]>>

RECURSIVE JoinNumbers(_, _)
JoinNumbers(list, i) ==
    IF i > Len(list)
    THEN <<>>
    ELSE (IF i > 1 THEN <<",">> ELSE <<>>)
         \o NumberChars(list[i]) \o JoinNumbers(list, i + 1)

\* JSON.stringify of an array of natural numbers
JSONstringify(list) == <<"[">> \o JoinNumbers(list, 1) \o <<"]">>

RECURSIVE ParseItems(_, _, _, _)
ParseItems(chars, i, acc, out) ==
    IF i > Len(chars) THEN out
    ELSE IF chars[i] = "]" THEN (IF acc = NaN THEN out ELSE Append(out, acc))
    ELSE IF chars[i] = "," THEN ParseItems(chars, i + 1, NaN, Append(out, acc))
    ELSE IF IsDigit(chars[i])
    THEN ParseItems(chars, i + 1,
                    10 * (IF acc = NaN THEN 0 ELSE acc) + DigitValue(chars[i]),
                    out)
    ELSE out

\* JSON.parse of the text of an array of natural numbers
JSONparse(chars) == ParseItems(chars, 2, NaN, <<>>)

\* st is the item 'completedLevels' of localStorage: its text, or NoItem
getCompletedLevels(st) == IF st # NoItem THEN JSONparse(st) ELSE <<>>

isLevelCompleted(st, levelId) == levelId \in Range(getCompletedLevels(st))

\* completeLevel that stores the new id alone
completeLevelOverwrites(st, levelId) ==
    IF levelId \notin Range(getCompletedLevels(st))
    THEN JSONstringify(<<levelId>>)
    ELSE st

\* completeLevel without the includes() test
completeLevelAlwaysPushes(st, levelId) ==
    JSONstringify(Append(getCompletedLevels(st), levelId))

completeLevel(st, levelId) ==
    LET completed == getCompletedLevels(st)
    IN  IF levelId \notin Range(completed)
        THEN JSONstringify(Append(completed, levelId))
        ELSE st

(***************************************************************************)
(* Stroke geometry.                                                        *)
(***************************************************************************)
\* squared distance of two points
Dist2(p, q) == (q[1] - p[1]) * (q[1] - p[1]) + (q[2] - p[2]) * (q[2] - p[2])

RECURSIVE SimplifyLoopFromAnchor(_, _, _, _, _)
\* the for loop of simplifyPoints measuring how far the current point is
\* from the last kept point, in place of its distance from the line
SimplifyLoopFromAnchor(points, tolerance, i, lastKeptIndex, simplified) ==
    IF i > Len(points) - 1
    THEN simplified
    ELSE LET lastKept == points[lastKeptIndex]
             curr == points[i]
             next == points[i + 1]
         IN  IF Dist2(lastKept, next) = 0
             THEN SimplifyLoopFromAnchor(points, tolerance, i + 1, i,
                                         Append(simplified, curr))
             ELSE IF 100 * Dist2(lastKept, curr) > tolerance * tolerance
             THEN SimplifyLoopFromAnchor(points, tolerance, i + 1, i,
                                         Append(simplified, curr))
             ELSE SimplifyLoopFromAnchor(points, tolerance, i + 1,
                                         lastKeptIndex, simplified)

RECURSIVE SimplifyLoopFixedAnchor(_, _, _, _, _)
\* the for loop of simplifyPoints with lastKeptIndex left at the first
\* point when a point is kept for its distance
SimplifyLoopFixedAnchor(points, tolerance, i, lastKeptIndex, simplified) ==
    IF i > Len(points) - 1
    THEN simplified
    ELSE LET lastKept == points[lastKeptIndex]
             curr == points[i]
             next == points[i + 1]
             dx == next[1] - lastKept[1]
             dy == next[2] - lastKept[2]
             len2 == dx * dx + dy * dy
             cross == dy * curr[1] - dx * curr[2]
                        + next[1] * lastKept[2] - next[2] * lastKept[1]
         IN  IF len2 = 0
             THEN SimplifyLoopFixedAnchor(points, tolerance, i + 1, i,
                                          Append(simplified, curr))
             ELSE IF 100 * cross * cross > tolerance * tolerance * len2
             THEN SimplifyLoopFixedAnchor(points, tolerance, i + 1,
                                          lastKeptIndex,
                                          Append(simplified, curr))
             ELSE SimplifyLoopFixedAnchor(points, tolerance, i + 1,
                                          lastKeptIndex, simplified)

RECURSIVE SimplifyLoop(_, _, _, _, _)
\* the for loop of simplifyPoints at index i (1-based), tolerance in tenths
SimplifyLoop(points, tolerance, i, lastKeptIndex, simplified) ==
    IF i > Len(points) - 1
    THEN simplified
    ELSE LET lastKept == points[lastKeptIndex]
             curr == points[i]
             next == points[i + 1]
             dx == next[1] - lastKept[1]
             dy == next[2] - lastKept[2]
             len2 == dx * dx + dy * dy
             cross == dy * curr[1] - dx * curr[2]
                        + next[1] * lastKept[2] - next[2] * lastKept[1]
         IN  IF len2 = 0
             THEN SimplifyLoop(points, tolerance, i + 1, i,
                               Append(simplified, curr))
             ELSE IF 100 * cross * cross > tolerance * tolerance * len2
             THEN SimplifyLoop(points, tolerance, i + 1, i,
                               Append(simplified, curr))
             ELSE SimplifyLoop(points, tolerance, i + 1, lastKeptIndex,
                               simplified)

\* simplifyPoints without the push of the last point after the loop
simplifyPointsDropsLast(points, tolerance) ==
    IF Len(points) <= 2
    THEN points
    ELSE SimplifyLoop(points, tolerance, 2, 1, <<points[1]>>)

simplifyPoints(points, tolerance) ==
    IF Len(points) <= 2
    THEN points
    ELSE Append(SimplifyLoop(points, tolerance, 2, 1, <<points[1]>>),
                points[Len(points)])

RECURSIVE RemoveCloseLoopPrevInput(_, _, _, _)
\* the for loop of removeClosePoints comparing each point with the point
\* before it in the input, in place of the last retained point
RemoveCloseLoopPrevInput(points, minDistance, i, result) ==
    IF i > Len(points)
    THEN result
    ELSE LET lastPoint == points[i - 1]
             currentPoint == points[i]
         IN  IF 100 * Dist2(lastPoint, currentPoint) >= minDistance * minDistance
             THEN RemoveCloseLoopPrevInput(points, minDistance, i + 1,
                                           Append(result, currentPoint))
             ELSE RemoveCloseLoopPrevInput(points, minDistance, i + 1, result)

RECURSIVE RemoveCloseLoop(_, _, _, _)
\* the for loop of removeClosePoints at index i, minDistance in tenths
RemoveCloseLoop(points, minDistance, i, result) ==
    IF i > Len(points)
    THEN result
    ELSE LET lastPoint == result[Len(result)]
             currentPoint == points[i]
         IN  IF 100 * Dist2(lastPoint, currentPoint) >= minDistance * minDistance
             THEN RemoveCloseLoop(points, minDistance, i + 1,
                                  Append(result, currentPoint))
             ELSE RemoveCloseLoop(points, minDistance, i + 1, result)

\* removeClosePoints returning its argument
removeClosePointsKeepsAll(points, minDistance) == points

removeClosePoints(points, minDistance) ==
    IF Len(points) <= 1
    THEN points
    ELSE RemoveCloseLoop(points, minDistance, 2, <<points[1]>>)

\* createPolygonFromLine is the one method with a threshold below one unit
\* (0.1): its points and its thickness are integers counting 1/Fine of a
\* unit.
Fine == 20

\* a point sequence given in units, in 1/Fine of a unit
Steps(points) ==
    [i \in 1..Len(points) |-> <<Fine * points[i][1], Fine * points[i][2]>>]

\* the ribbon vertex with the offset added on both rails
VertexOneSide(at, from, to, side, thickness) ==
    LET dx == to[1] - from[1]
        dy == to[2] - from[2]
    IN  [at |-> at,
         num |-> <<thickness * (0 - dy), thickness * dx>>,
         len2 |-> dx * dx + dy * dy]

\* The ribbon vertex  at + side * thickness * perp(from -> to),  where
\* perp(from -> to) is the unit vector (-dy, dx) / length of the segment:
\* the vertex is the point  at + num / sqrt(len2).
Vertex(at, from, to, side, thickness) ==
    LET dx == to[1] - from[1]
        dy == to[2] - from[2]
    IN  [at |-> at,
         num |-> <<side * thickness * (0 - dy), side * thickness * dx>>,
         len2 |-> dx * dx + dy * dy]

Reverse(s) == [i \in 1..Len(s) |-> s[Len(s) + 1 - i]]

RECURSIVE RailLoopSkipsTenth(_, _, _, _)
\* the for loop of createPolygonFromLine skipping a segment of length 0.1
\* as well (length <= 0.1)
RailLoopSkipsTenth(points, thickness, side, i) ==
    IF i > Len(points) - 1
    THEN <<>>
    ELSE LET p1 == points[i]
             p2 == points[i + 1]
             rest == RailLoopSkipsTenth(points, thickness, side, i + 1)
         IN  IF 100 * Dist2(p1, p2) <= Fine * Fine
             THEN rest
             ELSE <<Vertex(p2, p1, p2, side, thickness)>> \o rest

RECURSIVE RailLoopStopsAtShort(_, _, _, _)
\* the for loop of createPolygonFromLine leaving the pass at a segment
\* shorter than 0.1 (break in place of continue)
RailLoopStopsAtShort(points, thickness, side, i) ==
    IF i > Len(points) - 1
    THEN <<>>
    ELSE LET p1 == points[i]
             p2 == points[i + 1]
         IN  IF 100 * Dist2(p1, p2) < Fine * Fine
             THEN <<>>
             ELSE <<Vertex(p2, p1, p2, side, thickness)>>
                      \o RailLoopStopsAtShort(points, thickness, side, i + 1)

RECURSIVE RailLoop(_, _, _, _)
\* the for loop of createPolygonFromLine: the rail on one side, from segment i
RailLoop(points, thickness, side, i) ==
    IF i > Len(points) - 1
    THEN <<>>
    ELSE LET p1 == points[i]
             p2 == points[i + 1]
             rest == RailLoop(points, thickness, side, i + 1)
         IN  IF 100 * Dist2(p1, p2) < Fine * Fine       \* length < 0.1
             THEN rest
             ELSE <<Vertex(p2, p1, p2, side, thickness)>> \o rest

createPolygonFromLine(points, thickness) ==
    IF Len(points) < 2
    THEN <<>>
    ELSE LET first(side) ==
                 IF 100 * Dist2(points[1], points[2]) > Fine * Fine
                                                      \* firstLength > 0.1
                 THEN <<Vertex(points[1], points[1], points[2], side, thickness)>>
                 ELSE <<>>
             topPoints == first(1) \o RailLoop(points, thickness, 1, 1)
             bottomPoints == first(-1) \o RailLoop(points, thickness, -1, 1)
         IN  topPoints \o Reverse(bottomPoints)

RECURSIVE RectLoopNoBudget(_, _, _)
\* the for loop of createRectangleSegments without the break at
\* MAX_SEGMENTS bodies
RectLoopNoBudget(points, i, count) ==
    IF i > Len(points) - 1
    THEN <<>>
    ELSE IF Dist2(points[i], points[i + 1]) < MIN_SEGMENT_LENGTH * MIN_SEGMENT_LENGTH
    THEN RectLoopNoBudget(points, i + 1, count)
    ELSE <<<<points[i], points[i + 1]>>>>
             \o RectLoopNoBudget(points, i + 1, count + 1)

RECURSIVE RectLoop(_, _, _)
\* the for loop of createRectangleSegments from segment i, with `count` bodies
\* in lineSegments: the segments that get a rectangle body, in order
RectLoop(points, i, count) ==
    IF i > Len(points) - 1
    THEN <<>>
    ELSE IF count >= MAX_SEGMENTS
    THEN <<>>
    ELSE IF Dist2(points[i], points[i + 1]) < MIN_SEGMENT_LENGTH * MIN_SEGMENT_LENGTH
    THEN RectLoop(points, i + 1, count)
    ELSE <<<<points[i], points[i + 1]>>>> \o RectLoop(points, i + 1, count + 1)

(***************************************************************************)
(* Bodies and the world.                                                   *)
(***************************************************************************)
Pose(kind, x, y) ==
    [kind |-> kind, x |-> x, y |-> y, vx |-> 0, vy |-> 0, angle |-> 0]

RECURSIVE FreshIds(_, _)
\* n new body identities, none of them in `used`
FreshIds(used, n) ==
    IF n = 0
    THEN <<>>
    ELSE LET k == CHOOSE j \in 1..(Cardinality(used) + 1) :
                      /\ j \notin used
                      /\ \A m \in 1..(j - 1) : m \in used
         IN  <<k>> \o FreshIds(used \cup {k}, n - 1)

\* World.add of the bodies `ids`, each with pose `pose`
WorldAdd(world, ids, pose) ==
    [b \in DOMAIN world \cup Range(ids) |->
        IF b \in Range(ids) THEN pose ELSE world[b]]

\* World.remove of the bodies `ids` (a body not in the world is ignored)
WorldRemove(world, ids) == [b \in DOMAIN world \ ids |-> world[b]]

\* createRectangleSegments(points): [segs, world, made] after the loop
\* createRectangleSegments with the new bodies assigned to the obstacle set
\* in place of being pushed onto it
createRectangleSegmentsReplacing(points, segs, world) ==
    LET made == RectLoop(points, 1, Len(segs))
        ids == FreshIds(DOMAIN world \cup Range(segs), Len(made))
    IN  [segs |-> ids,
         world |-> WorldAdd(world, ids, Pose("line", 0, 0)),
         made |-> made]

createRectangleSegments(points, segs, world) ==
    LET made == RectLoop(points, 1, Len(segs))
        ids == FreshIds(DOMAIN world \cup Range(segs), Len(made))
    IN  [segs |-> segs \o ids,
         world |-> WorldAdd(world, ids, Pose("line", 0, 0)),
         made |-> made]

\* Outcomes of Bodies.fromVertices: an exception, a falsy value, one Body,
\* or an array of n Bodies (n = 0: the empty array).
PolyOutcomes ==
    {[kind |-> "throws", n |-> 0], [kind |-> "null", n |-> 0],
     [kind |-> "body", n |-> 1]}
    \cup {[kind |-> "array", n |-> n] : n \in 0..MaxParts}

\* the try/catch of createLineSegments with no fallback for an empty array
PolygonBodyIgnoresEmpty(rect, segs, world, poly) ==
    LET parts == FreshIds(DOMAIN world \cup Range(segs), poly.n)
    IN  IF poly.kind = "throws" THEN rect
        ELSE IF poly.kind = "null" THEN rect
        ELSE [segs |-> segs \o parts,
              world |-> WorldAdd(world, parts, Pose("line", 0, 0)),
              path |-> "polygon", error |-> FALSE, tried |-> TRUE]

\* the try/catch of createLineSegments keeping only the first body of an
\* array returned by Bodies.fromVertices
PolygonBodyFirstPart(rect, segs, world, poly) ==
    LET parts == FreshIds(DOMAIN world \cup Range(segs),
                          IF poly.n > 0 THEN 1 ELSE 0)
    IN  IF poly.kind = "throws" THEN rect
        ELSE IF poly.kind = "null" THEN rect
        ELSE IF poly.n > 0
        THEN [segs |-> segs \o parts,
              world |-> WorldAdd(world, parts, Pose("line", 0, 0)),
              path |-> "polygon", error |-> FALSE, tried |-> TRUE]
        ELSE rect

\* the try block of createLineSegments without its catch clause: an
\* exception of Bodies.fromVertices leaves the method
PolygonBodyUncaught(rect, segs, world, poly) ==
    LET parts == FreshIds(DOMAIN world \cup Range(segs), poly.n)
    IN  IF poly.kind = "throws"
        THEN [segs |-> segs, world |-> world, path |-> "polygon",
              error |-> TRUE, tried |-> TRUE]
        ELSE IF poly.kind = "null" THEN rect
        ELSE IF poly.n > 0
        THEN [segs |-> segs \o parts,
              world |-> WorldAdd(world, parts, Pose("line", 0, 0)),
              path |-> "polygon", error |-> FALSE, tried |-> TRUE]
        ELSE rect

\* The try/catch of createLineSegments around Bodies.fromVertices, whose
\* outcome is poly; rect is the result of createRectangleSegments.
PolygonBody(rect, segs, world, poly) ==
    LET parts == FreshIds(DOMAIN world \cup Range(segs), poly.n)
    IN  IF poly.kind = "throws" THEN rect          \* catch (e)
        ELSE IF poly.kind = "null" THEN rect       \* if (segment) .. else
        ELSE IF poly.n > 0                         \* segments.length > 0
        THEN [segs |-> segs \o parts,
              world |-> WorldAdd(world, parts, Pose("line", 0, 0)),
              path |-> "polygon", error |-> FALSE, tried |-> TRUE]
        ELSE rect

\* createLineSegments without the test of the obstacle set against
\* MAX_SEGMENTS at its entry
createLineSegmentsNoBudget(points, segs, world, poly) ==
    LET simplifiedPoints == simplifyPoints(points, SimplifyTolerance)
        cleanedPoints == removeClosePoints(simplifiedPoints, CloseDistance)
        polygonPoints == createPolygonFromLine(Steps(cleanedPoints),
                                               Fine * (SEGMENT_THICKNESS \div 2))
        rejected == [segs |-> segs, world |-> world, path |-> "rejected",
                     error |-> FALSE, tried |-> FALSE]
        rect == LET r == createRectangleSegments(cleanedPoints, segs, world)
                IN  [segs |-> r.segs, world |-> r.world, path |-> "rect",
                     error |-> FALSE, tried |-> Len(polygonPoints) >= 3]
    IN  IF Len(points) < 2 THEN rejected
        ELSE IF Len(simplifiedPoints) < 2 THEN rejected
        ELSE IF Len(cleanedPoints) < 2 THEN rejected
        ELSE IF Len(polygonPoints) >= 3
        THEN PolygonBody(rect, segs, world, poly)
        ELSE rect

\* createLineSegments(): the obstacle set and the world after the call, the
\* path taken ("rejected" | "polygon" | "rect"), whether an exception left
\* the method, and whether Bodies.fromVertices was called.
createLineSegments(points, segs, world, poly) ==
    LET simplifiedPoints == simplifyPoints(points, SimplifyTolerance)
        cleanedPoints == removeClosePoints(simplifiedPoints, CloseDistance)
        polygonPoints == createPolygonFromLine(Steps(cleanedPoints),
                                               Fine * (SEGMENT_THICKNESS \div 2))
        rejected == [segs |-> segs, world |-> world, path |-> "rejected",
                     error |-> FALSE, tried |-> FALSE]
        rect == LET r == createRectangleSegments(cleanedPoints, segs, world)
                IN  [segs |-> r.segs, world |-> r.world, path |-> "rect",
                     error |-> FALSE, tried |-> Len(polygonPoints) >= 3]
    IN  IF Len(points) < 2 THEN rejected
        ELSE IF Len(segs) >= MAX_SEGMENTS THEN rejected
        ELSE IF Len(simplifiedPoints) < 2 THEN rejected
        ELSE IF Len(cleanedPoints) < 2 THEN rejected
        ELSE IF Len(polygonPoints) >= 3
        THEN PolygonBody(rect, segs, world, poly)
        ELSE rect

(***************************************************************************)
(* Canvas, scale and the physics world.                                    *)
(***************************************************************************)
\* Window sizes the host can take: inner width, inner height and the height
\* of the ion-header element.
Sizes ==
    {[w |-> 800, h |-> 604, header |-> 8],
     [w |-> 400, h |-> 504, header |-> 8]}

\* the size of the window when the page is created
InitSize == [w |-> 800, h |-> 604, header |-> 8]

\* setupCanvas / updateCanvasSize: the logical canvas size for a window size
setupCanvas(vp) ==
    LET headerDeduction == Max(vp.header - 4, 0)
        availableHeight == vp.h - headerDeduction
        displayHeight == IF availableHeight < 400 THEN vp.h ELSE availableHeight
    IN  [w |-> vp.w, h |-> IF displayHeight > 0 THEN displayHeight ELSE vp.h]

NoScale == [n |-> 0, d |-> 1]

\* v * scale
Mul(v, s) == (v * s.n) \div s.d

EmptyWorld == [b \in {} |-> Pose("line", 0, 0)]

\* a world without constraints
NoConstraints == [c \in {} |-> [bodyA |-> NoBody, bodyB |-> NoBody]]

\* initPhysics(): a new engine and world with the platforms and the two
\* balls; the canvas has just been sized by setupCanvas for window size vp.
initPhysics(lv, vp, segs) ==
    LET logical == setupCanvas(vp)
        sc == [n |-> logical.w, d |-> lv.width]
        scaledLevelHeight == Mul(lv.height, sc)
        ho == IF scaledLevelHeight < logical.h
              THEN (logical.h - scaledLevelHeight) \div 2
              ELSE 0
        k == Len(lv.staticBodies)
        ids == FreshIds(Range(segs), k + 2)
        blue == ids[k + 1]
        orange == ids[k + 2]
    IN  [world |->
            [b \in Range(ids) |->
                IF b = blue
                THEN Pose("circle", Mul(lv.blueBall.x, sc), Mul(lv.blueBall.y, sc) + ho)
                ELSE IF b = orange
                THEN Pose("circle", Mul(lv.orangeBall.x, sc), Mul(lv.orangeBall.y, sc) + ho)
                ELSE LET i == CHOOSE j \in 1..k : ids[j] = b
                     IN  Pose("static", Mul(lv.staticBodies[i].x, sc),
                              Mul(lv.staticBodies[i].y, sc) + ho)],
         blueBall |-> blue, orangeBall |-> orange,
         scale |-> sc, heightOffset |-> ho]

\* Engine.create(): the identity of the new engine, the least one that the
\* page holds no reference to; hEng is the engine that holds the
\* collisionStart registration
EngineCreate(hEng) == IF hEng = 1 THEN 2 ELSE 1

\* Engine.update(engine, 1000 / 60) with motion d: the balls keep their
\* place (d = 0), or fall, turning, to the height of the ground platform,
\* the lowest static body (d = 1)
EngineUpdate(world, blue, orange, d) ==
    LET statics == {b \in DOMAIN world : world[b].kind = "static"}
        ground == CHOOSE g \in statics : \A h \in statics : world[h].y <= world[g].y
    IN  [b \in DOMAIN world |->
            IF b \in {blue, orange} /\ d = 1
            THEN [world[b] EXCEPT !.y = world[ground].y, !.vy = 1, !.angle = 1]
            ELSE IF b \in {blue, orange}
            THEN [world[b] EXCEPT !.vy = 0]
            ELSE world[b]]

(***************************************************************************)
(* Win detection.                                                          *)
(***************************************************************************)
\* the test of the handler with only its first disjunct
IsWinPairOneOrder(bodyA, bodyB, blue, orange) ==
    bodyA = blue /\ bodyB = orange

\* the test of the collisionStart handler on one pair
IsWinPair(bodyA, bodyB, blue, orange) ==
    \/ bodyA = blue /\ bodyB = orange
    \/ bodyA = orange /\ bodyB = blue

\* onLevelComplete() without its `if (this.levelComplete) return`
onLevelCompleteUnguarded(st, lev) ==
    [lc |-> TRUE, sva |-> TRUE,
     storage |-> IF lev # 0 THEN completeLevel(st.storage, lev) ELSE st.storage,
     calls |-> IF lev # 0 THEN st.calls + 1 ELSE st.calls,
     timers |-> st.timers + 1]

\* onLevelComplete() that clears levelComplete when it is already set
onLevelCompleteToggles(st, lev) ==
    IF st.lc
    THEN [st EXCEPT !.lc = FALSE]
    ELSE [lc |-> TRUE, sva |-> TRUE,
          storage |-> IF lev # 0 THEN completeLevel(st.storage, lev) ELSE st.storage,
          calls |-> IF lev # 0 THEN st.calls + 1 ELSE st.calls,
          timers |-> st.timers + 1]

\* onLevelComplete() without its call of progressService.completeLevel
onLevelCompleteSilent(st, lev) ==
    IF st.lc
    THEN st
    ELSE [lc |-> TRUE, sva |-> TRUE, storage |-> st.storage,
          calls |-> st.calls, timers |-> st.timers + 1]

\* onLevelComplete() on st = [lc, sva, storage, calls, timers]
onLevelComplete(st, lev) ==
    IF st.lc
    THEN st
    ELSE [lc |-> TRUE, sva |-> TRUE,
          storage |-> IF lev # 0 THEN completeLevel(st.storage, lev) ELSE st.storage,
          calls |-> IF lev # 0 THEN st.calls + 1 ELSE st.calls,
          timers |-> st.timers + 1]

RECURSIVE collisionStart(_, _, _, _, _, _)
\* the collisionStart handler on event.pairs, from pair i
collisionStart(pairs, i, st, lev, blue, orange) ==
    IF i > Len(pairs)
    THEN st
    ELSE collisionStart(pairs, i + 1,
             IF IsWinPair(pairs[i][1], pairs[i][2], blue, orange)
             THEN onLevelComplete(st, lev)
             ELSE st,
             lev, blue, orange)

\* Pairs the engine may report for a world: the two balls in both orders, a
\* ball with another body, two other bodies.
ContactPairs(world, blue, orange) ==
    LET others == DOMAIN world \ {blue, orange}
        lines == {b \in others : world[b].kind = "line"}
        Least(S) == CHOOSE b \in S : \A c \in S : b <= c
        o1 == IF lines # {} THEN Least(lines) ELSE Least(others)
    IN  {<<blue, orange>>, <<orange, blue>>, <<blue, o1>>}
        \cup {<<o1, o2>> : o2 \in IF others \ {o1} = {} THEN {}
                                  ELSE {Least(others \ {o1})}}

\* event.pairs of one collisionStart event: no pair, one pair, a pair that
\* is not the two balls followed by one that is, and the two balls twice
Batches(world, blue, orange) ==
    LET all == ContactPairs(world, blue, orange)
        balls == {<<blue, orange>>, <<orange, blue>>}
    IN  {<<>>} \cup {<<p>> : p \in all}
        \cup {<<p, q>> : p \in all \ balls, q \in balls}
        \cup {<<<<blue, orange>>, <<orange, blue>>>>}

\* number of pairs of a batch that are the two balls, in either order
BallPairs(pairs, blue, orange) ==
    Cardinality({i \in 1..Len(pairs) : {pairs[i][1], pairs[i][2]} = {blue, orange}})

\* One pass of renderLoop's Engine.update on world w: the handler runs when
\* it is registered on the engine that is updated.
EngineStep(w, blue, orange, eng, hEng, st, lev, d, pairs) ==
    [world |-> EngineUpdate(w, blue, orange, d),
     st |-> IF hEng = eng
            THEN collisionStart(pairs, 1, st, lev, blue, orange)
            ELSE st]

(***************************************************************************)
(* restart().                                                              *)
(***************************************************************************)
\* restart() without the reset of the orange ball
restartBlueOnly(st, lev, blue, orange, sc, ho) ==
    LET world1 == WorldRemove(st.world, Range(st.segs))
        s == IF sc.n = 0 THEN [n |-> 1, d |-> 1] ELSE sc
    IN  IF lev = 0
        THEN [segs |-> <<>>, world |-> world1, lc |-> FALSE, sva |-> FALSE,
              error |-> FALSE]
        ELSE IF blue = NoBody
        THEN [segs |-> <<>>, world |-> world1, lc |-> st.lc, sva |-> st.sva,
              error |-> TRUE]
        ELSE [segs |-> <<>>,
              world |-> [world1 EXCEPT ![blue] =
                            [@ EXCEPT !.x = Mul(Lvl(lev).blueBall.x, s),
                                      !.y = Mul(Lvl(lev).blueBall.y, s) + ho,
                                      !.vx = 0, !.vy = 0, !.angle = 0]],
              lc |-> FALSE, sva |-> FALSE, error |-> FALSE]

\* restart() removing the blue ball from the world together with the
\* obstacles
restartRemovesBall(st, lev, blue, orange, sc, ho) ==
    LET world1 == WorldRemove(st.world, Range(st.segs) \cup {blue})
        s == IF sc.n = 0 THEN [n |-> 1, d |-> 1] ELSE sc
    IN  IF lev = 0
        THEN [segs |-> <<>>, world |-> world1, lc |-> FALSE, sva |-> FALSE,
              error |-> FALSE]
        ELSE IF blue = NoBody
        THEN [segs |-> <<>>, world |-> world1, lc |-> st.lc, sva |-> st.sva,
              error |-> TRUE]
        ELSE [segs |-> <<>>,
              world |-> [world1 EXCEPT ![orange] =
                            [@ EXCEPT !.x = Mul(Lvl(lev).orangeBall.x, s),
                                      !.y = Mul(Lvl(lev).orangeBall.y, s) + ho,
                                      !.vx = 0, !.vy = 0, !.angle = 0]],
              lc |-> FALSE, sva |-> FALSE, error |-> FALSE]

\* restart() on st = [segs, world, lc, sva, error]; error: a TypeError left
\* the method (Body.setPosition on an undefined ball)
restart(st, lev, blue, orange, sc, ho) ==
    LET world1 == WorldRemove(st.world, Range(st.segs))
        s == IF sc.n = 0 THEN [n |-> 1, d |-> 1] ELSE sc      \* scale || 1
        Reset(w, b, ball) ==
            [w EXCEPT ![b] = [@ EXCEPT !.x = Mul(ball.x, s),
                                       !.y = Mul(ball.y, s) + ho,
                                       !.vx = 0, !.vy = 0, !.angle = 0]]
    IN  IF lev = 0
        THEN [segs |-> <<>>, world |-> world1, lc |-> FALSE, sva |-> FALSE,
              error |-> FALSE]
        ELSE IF blue = NoBody
        THEN [segs |-> <<>>, world |-> world1, lc |-> st.lc, sva |-> st.sva,
              error |-> TRUE]
        ELSE [segs |-> <<>>,
              world |-> Reset(Reset(world1, blue, Lvl(lev).blueBall),
                              orange, Lvl(lev).orangeBall),
              lc |-> FALSE, sva |-> FALSE, error |-> FALSE]

(***************************************************************************)
(* Route parameter.                                                        *)
(***************************************************************************)
RECURSIVE ParseDigits(_, _, _)
ParseDigits(chars, i, acc) ==
    IF i > Len(chars) \/ ~IsDigit(chars[i])
    THEN acc
    ELSE ParseDigits(chars, i + 1, 10 * acc + DigitValue(chars[i]))

\* parseInt(text, 10) of a string given as its characters
parseInt(chars) ==
    IF chars = <<>> \/ ~IsDigit(chars[1]) THEN NaN ELSE ParseDigits(chars, 1, 0)

\* values of route.snapshot.paramMap.get('id'); <<>> is a missing parameter
RouteParams == {<<>>, <<"6">>, <<"x">>}

\* the stored completed list a session may start with
InitStorage == {JSONstringify(<<3>>)}

\* points a pointer event may report
Pts == {<<0, 0>>, <<4, 0>>, <<20, 0>>, <<10, 12>>}

\* the points of the strokes of Spec
EndPts == {<<0, 0>>, <<20, 0>>}

(***************************************************************************)
(* The record of the last handler.                                         *)
(***************************************************************************)
\* op: the handler; route: what ngOnInit found in the route ("missing": no
\* id, "unmatched": an id of no level, "matched"); single: one point was
\* buffered when pointer-up arrived; parts: the number of bodies
\* Bodies.fromVertices returned; poly, path, error: the outcome of
\* Bodies.fromVertices ("empty": the empty array), the path
\* createLineSegments took and whether an exception left the handler;
\* undone: restart found obstacles to remove and a ball away from its start
\* pose; ballPair: the batch of the frame held a pair of the two balls;
\* delivered: the collisionStart handler ran on that batch; wasComplete:
\* levelComplete when the handler (of a batch with a ball pair, or restart)
\* was entered.
Last(op) ==
    [op |-> op, route |-> "none", single |-> FALSE, poly |-> "none",
     parts |-> 0, path |-> "none",
     error |-> FALSE, undone |-> FALSE, ballPair |-> FALSE,
     delivered |-> FALSE, wasComplete |-> FALSE]

FrameRecord(pairs, blue, orange, ran, lc) ==
    IF BallPairs(pairs, blue, orange) > 0
    THEN [Last("frame") EXCEPT !.ballPair = TRUE, !.delivered = ran,
                               !.wasComplete = lc]
    ELSE Last("frame")

WinState == [lc |-> levelComplete, sva |-> showVictoryAnimation,
             storage |-> storage, calls |-> completeCalls,
             timers |-> hideTimers]

(***************************************************************************)
(* Initial state: the page object after its constructor.                   *)
(***************************************************************************)
\* a call record before any call
NoCall == [fn |-> "none", points |-> <<>>, param |-> 0, count |-> 0,
           out |-> <<>>]

\* the page after construction; the storage is not the page's
PageInit ==
    /\ pc = "constructed"
    /\ destroyed = FALSE
    /\ level = 0
    /\ hasNextLevel = FALSE
    /\ nav = "none"
    /\ viewport = InitSize
    /\ engine = 0
    /\ handlerEngine = 0
    /\ bodies = EmptyWorld
    /\ blueBall = NoBody
    /\ orangeBall = NoBody
    /\ scale = NoScale
    /\ heightOffset = 0
    /\ lineSegments = <<>>
    /\ isDrawing = FALSE
    /\ drawingPoints = <<>>
    /\ levelComplete = FALSE
    /\ showVictoryAnimation = FALSE
    /\ hideTimers = 0
    /\ resizeTimeout = "none"
    /\ listening = FALSE
    /\ animationFrameId = 0
    /\ loopPending = FALSE
    /\ completeCalls = 0
    /\ last = Last("none")
    /\ constraints = NoConstraints
    /\ lineConstraints = <<>>

Init == PageInit /\ storage \in InitStorage /\ call = NoCall

(***************************************************************************)
(* Lifecycle.                                                              *)
(***************************************************************************)
\* ngOnInit with hasNextLevel = levelId <= allLevels.length
ngOnInitCountsPastEnd(param) ==
    /\ pc = "constructed"
    /\ LET levelId == parseInt(IF param = <<>> THEN <<"1">> ELSE param)
           found == getLevelById(levelId)
       IN  /\ level' = found
           /\ nav' = IF found = 0 THEN "home" ELSE nav
           /\ hasNextLevel' = IF found = 0 THEN hasNextLevel
                              ELSE levelId <= Len(getLevels)
    /\ pc' = "onInit"
    /\ last' = [Last("onInit") EXCEPT
                  !.route = IF param = <<>> THEN "missing"
                            ELSE IF \A i \in 1..Len(LEVELS) :
                                       NumberChars(LEVELS[i].id) # param
                            THEN "unmatched"
                            ELSE "matched"]
    /\ UNCHANGED <<linkVars, call, destroyed, viewport, engine, handlerEngine, bodies,
                   blueBall, orangeBall, scale, heightOffset, lineSegments,
                   isDrawing, drawingPoints, levelComplete,
                   showVictoryAnimation, hideTimers, resizeTimeout, listening,
                   animationFrameId, loopPending, storage, completeCalls>>

ngOnInit(param) ==
    /\ pc = "constructed"
    /\ LET levelId == parseInt(IF param = <<>> THEN <<"1">> ELSE param)
           found == getLevelById(levelId)
       IN  /\ level' = found
           /\ nav' = IF found = 0 THEN "home" ELSE nav
           /\ hasNextLevel' = IF found = 0 THEN hasNextLevel
                              ELSE levelId < Len(getLevels)
    /\ pc' = "onInit"
    /\ last' = [Last("onInit") EXCEPT
                  !.route = IF param = <<>> THEN "missing"
                            ELSE IF \A i \in 1..Len(LEVELS) :
                                       NumberChars(LEVELS[i].id) # param
                            THEN "unmatched"
                            ELSE "matched"]
    /\ UNCHANGED <<linkVars, call, destroyed, viewport, engine, handlerEngine, bodies,
                   blueBall, orangeBall, scale, heightOffset, lineSegments,
                   isDrawing, drawingPoints, levelComplete,
                   showVictoryAnimation, hideTimers, resizeTimeout, listening,
                   animationFrameId, loopPending, storage, completeCalls>>

ngAfterViewInit ==
    /\ pc = "onInit"
    /\ pc' = IF level = 0 THEN "idle" ELSE "timer"      \* setTimeout(.., 200)
    /\ last' = Last("other")
    /\ UNCHANGED <<linkVars, call, destroyed, level, hasNextLevel, nav, viewport, engine,
                   handlerEngine, bodies, blueBall, orangeBall, scale,
                   heightOffset, lineSegments, isDrawing, drawingPoints,
                   levelComplete, showVictoryAnimation, hideTimers,
                   resizeTimeout, listening, animationFrameId, loopPending,
                   storage, completeCalls>>

\* the 200 ms timer and the first requestAnimationFrame callback
InitDelay ==
    /\ pc \in {"timer", "raf1"}
    /\ pc' = IF pc = "timer" THEN "raf1" ELSE "raf2"
    /\ last' = Last("other")
    /\ UNCHANGED <<linkVars, call, destroyed, level, hasNextLevel, nav, viewport, engine,
                   handlerEngine, bodies, blueBall, orangeBall, scale,
                   heightOffset, lineSegments, isDrawing, drawingPoints,
                   levelComplete, showVictoryAnimation, hideTimers,
                   resizeTimeout, listening, animationFrameId, loopPending,
                   storage, completeCalls>>

\* The second requestAnimationFrame callback: setupCanvas, initPhysics,
\* setupDrawing, setupCollisionDetection, startRenderLoop (which runs the
\* first renderLoop pass at once), setupResizeObserver.
InitFinish ==
    /\ pc = "raf2"
    /\ \E d \in Motions :
       LET ph == initPhysics(Lvl(level), viewport, lineSegments)
           eng == EngineCreate(handlerEngine)
       IN
       \E pairs \in Batches(ph.world, ph.blueBall, ph.orangeBall) :
       LET r == EngineStep(ph.world, ph.blueBall, ph.orangeBall, eng, eng,
                           WinState, level, d, pairs)
       IN  /\ r.st.calls <= MaxWins
           /\ bodies' = r.world
           /\ blueBall' = ph.blueBall
           /\ orangeBall' = ph.orangeBall
           /\ scale' = ph.scale
           /\ heightOffset' = ph.heightOffset
           /\ levelComplete' = r.st.lc
           /\ showVictoryAnimation' = r.st.sva
           /\ storage' = r.st.storage
           /\ completeCalls' = r.st.calls
           /\ hideTimers' = r.st.timers
           /\ last' = FrameRecord(pairs, ph.blueBall, ph.orangeBall, TRUE,
                                   levelComplete)
    /\ engine' = EngineCreate(handlerEngine)
    /\ handlerEngine' = EngineCreate(handlerEngine)
    /\ listening' = ~destroyed
    /\ animationFrameId' = 1
    /\ loopPending' = TRUE
    /\ pc' = "running"
    /\ UNCHANGED <<linkVars, call, destroyed, level, hasNextLevel, nav, viewport,
                   lineSegments, isDrawing, drawingPoints, resizeTimeout>>

ngOnDestroy ==
    /\ pc \notin {"constructed", "onInit"}
    /\ ~destroyed
    /\ destroyed' = TRUE
    /\ loopPending' = IF animationFrameId # 0 THEN FALSE ELSE loopPending
    /\ resizeTimeout' = "none"
    /\ listening' = FALSE
    /\ last' = Last("other")
    /\ UNCHANGED <<linkVars, call, pc, level, hasNextLevel, nav, viewport, engine,
                   handlerEngine, bodies, blueBall, orangeBall, scale,
                   heightOffset, lineSegments, isDrawing, drawingPoints,
                   levelComplete, showVictoryAnimation, hideTimers,
                   animationFrameId, storage, completeCalls>>

(***************************************************************************)
(* The frame loop.                                                         *)
(***************************************************************************)
\* one renderLoop callback
renderLoop ==
    /\ loopPending
    /\ \E d \in Motions,
          pairs \in Batches(bodies, blueBall, orangeBall) :
       LET r == EngineStep(bodies, blueBall, orangeBall, engine,
                           handlerEngine, WinState, level, d, pairs)
       IN  /\ r.st.calls <= MaxWins
           /\ bodies' = r.world
           /\ levelComplete' = r.st.lc
           /\ showVictoryAnimation' = r.st.sva
           /\ storage' = r.st.storage
           /\ completeCalls' = r.st.calls
           /\ hideTimers' = r.st.timers
           /\ last' = FrameRecord(pairs, blueBall, orangeBall,
                                   handlerEngine = engine, levelComplete)
    /\ animationFrameId' = 1
    /\ loopPending' = TRUE
    /\ UNCHANGED <<linkVars, call, pc, destroyed, level, hasNextLevel, nav, viewport, engine,
                   handlerEngine, blueBall, orangeBall, scale, heightOffset,
                   lineSegments, isDrawing, drawingPoints, resizeTimeout,
                   listening>>

\* the 2 s timer of onLevelComplete
HideTimer ==
    /\ hideTimers > 0
    /\ hideTimers' = hideTimers - 1
    /\ showVictoryAnimation' = FALSE
    /\ last' = Last("other")
    /\ UNCHANGED <<linkVars, call, pc, destroyed, level, hasNextLevel, nav, viewport, engine,
                   handlerEngine, bodies, blueBall, orangeBall, scale,
                   heightOffset, lineSegments, isDrawing, drawingPoints,
                   levelComplete, resizeTimeout, listening, animationFrameId,
                   loopPending, storage, completeCalls>>

(***************************************************************************)
(* Input capture.                                                          *)
(***************************************************************************)
\* onPointerDown without the assignment of isDrawing
onPointerDownIdle(p) ==
    /\ listening
    /\ ~levelComplete
    /\ drawingPoints' = <<p>>
    /\ last' = Last("other")
    /\ UNCHANGED <<linkVars, call, pc, destroyed, level, hasNextLevel, nav, viewport, engine,
                   handlerEngine, bodies, blueBall, orangeBall, scale,
                   heightOffset, lineSegments, isDrawing, levelComplete,
                   showVictoryAnimation, hideTimers, resizeTimeout, listening,
                   animationFrameId, loopPending, storage, completeCalls>>

onPointerDown(p) ==
    /\ listening
    /\ ~levelComplete
    /\ isDrawing' = TRUE
    /\ drawingPoints' = <<p>>
    /\ last' = Last("other")
    /\ UNCHANGED <<linkVars, call, pc, destroyed, level, hasNextLevel, nav, viewport, engine,
                   handlerEngine, bodies, blueBall, orangeBall, scale,
                   heightOffset, lineSegments, levelComplete,
                   showVictoryAnimation, hideTimers, resizeTimeout, listening,
                   animationFrameId, loopPending, storage, completeCalls>>

onPointerMove(p) ==
    /\ listening
    /\ isDrawing
    /\ ~levelComplete
    /\ LET lastPoint == drawingPoints[Len(drawingPoints)]
       IN  drawingPoints' = IF Dist2(lastPoint, p) > MoveFilter * MoveFilter
                            THEN Append(drawingPoints, p)
                            ELSE drawingPoints
    /\ last' = Last("other")
    /\ UNCHANGED <<linkVars, call, pc, destroyed, level, hasNextLevel, nav, viewport, engine,
                   handlerEngine, bodies, blueBall, orangeBall, scale,
                   heightOffset, lineSegments, isDrawing, levelComplete,
                   showVictoryAnimation, hideTimers, resizeTimeout, listening,
                   animationFrameId, loopPending, storage, completeCalls>>

\* onPointerUp without the reset of the stroke buffer
onPointerUpKeepsBuffer(poly) ==
    /\ listening
    /\ isDrawing
    /\ poly \in PolyOutcomes
    /\ LET r == createLineSegments(drawingPoints, lineSegments, bodies, poly)
       IN  /\ lineSegments' = r.segs
           /\ bodies' = r.world
           /\ last' = [Last("pointerUp") EXCEPT
                         !.single = (Len(drawingPoints) = 1),
                         !.poly = IF ~r.tried THEN "none"
                                  ELSE IF poly.kind = "array" /\ poly.n = 0
                                  THEN "empty"
                                  ELSE poly.kind,
                         !.parts = IF r.tried THEN poly.n ELSE 0,
                         !.path = r.path,
                         !.error = r.error]
    /\ isDrawing' = FALSE
    /\ UNCHANGED <<linkVars, call, pc, destroyed, level, hasNextLevel, nav, viewport, engine,
                   handlerEngine, blueBall, orangeBall, scale, heightOffset,
                   drawingPoints, levelComplete, showVictoryAnimation,
                   hideTimers, resizeTimeout, listening, animationFrameId,
                   loopPending, storage, completeCalls>>

\* pointerup and pointercancel
onPointerUp(poly) ==
    /\ listening
    /\ isDrawing
    /\ poly \in PolyOutcomes
    /\ LET r == createLineSegments(drawingPoints, lineSegments, bodies, poly)
       IN  /\ lineSegments' = r.segs
           /\ bodies' = r.world
           /\ drawingPoints' = IF r.error THEN drawingPoints ELSE <<>>
           /\ last' = [Last("pointerUp") EXCEPT
                         !.single = (Len(drawingPoints) = 1),
                         !.poly = IF ~r.tried THEN "none"
                                  ELSE IF poly.kind = "array" /\ poly.n = 0
                                  THEN "empty"
                                  ELSE poly.kind,
                         !.parts = IF r.tried THEN poly.n ELSE 0,
                         !.path = r.path,
                         !.error = r.error]
    /\ isDrawing' = FALSE
    /\ UNCHANGED <<linkVars, call, pc, destroyed, level, hasNextLevel, nav, viewport, engine,
                   handlerEngine, blueBall, orangeBall, scale, heightOffset,
                   levelComplete, showVictoryAnimation, hideTimers,
                   resizeTimeout, listening, animationFrameId, loopPending,
                   storage, completeCalls>>

(***************************************************************************)
(* Resize.                                                                 *)
(***************************************************************************)
\* window:resize with the window now of size sz
onResize(sz) ==
    /\ pc \notin {"constructed", "onInit"}
    /\ ~destroyed
    /\ sz \in Sizes \ {viewport}
    /\ viewport' = sz
    /\ resizeTimeout' = IF level # 0 THEN "reinit" ELSE resizeTimeout
    /\ last' = Last("other")
    /\ UNCHANGED <<linkVars, call, pc, destroyed, level, hasNextLevel, nav, engine,
                   handlerEngine, bodies, blueBall, orangeBall, scale,
                   heightOffset, lineSegments, isDrawing, drawingPoints,
                   levelComplete, showVictoryAnimation, hideTimers, listening,
                   animationFrameId, loopPending, storage, completeCalls>>

\* the ResizeObserver callback of setupResizeObserver
ResizeObserved ==
    /\ listening
    /\ resizeTimeout' = "canvas"
    /\ last' = Last("other")
    /\ UNCHANGED <<linkVars, call, pc, destroyed, level, hasNextLevel, nav, viewport, engine,
                   handlerEngine, bodies, blueBall, orangeBall, scale,
                   heightOffset, lineSegments, isDrawing, drawingPoints,
                   levelComplete, showVictoryAnimation, hideTimers, listening,
                   animationFrameId, loopPending, storage, completeCalls>>

\* the debounced 100 ms timer: setupCanvas, and initPhysics when it was set
\* by onResize
ResizeTimer ==
    /\ resizeTimeout # "none"
    /\ resizeTimeout' = "none"
    /\ IF resizeTimeout = "reinit"
       THEN LET ph == initPhysics(Lvl(level), viewport, lineSegments)
            IN  /\ engine' = EngineCreate(handlerEngine)
                /\ bodies' = ph.world
                /\ blueBall' = ph.blueBall
                /\ orangeBall' = ph.orangeBall
                /\ scale' = ph.scale
                /\ heightOffset' = ph.heightOffset
       ELSE UNCHANGED <<engine, bodies, blueBall, orangeBall, scale, heightOffset>>
    /\ last' = Last("other")
    /\ UNCHANGED <<linkVars, call, pc, destroyed, level, hasNextLevel, nav, viewport,
                   handlerEngine, lineSegments, isDrawing, drawingPoints,
                   levelComplete, showVictoryAnimation, hideTimers, listening,
                   animationFrameId, loopPending, storage, completeCalls>>

(***************************************************************************)
(* Restart button.                                                         *)
(***************************************************************************)
RestartState == [segs |-> lineSegments, world |-> bodies,
                 lc |-> levelComplete, sva |-> showVictoryAnimation,
                 error |-> FALSE]

Restart ==
    /\ pc \notin {"constructed", "onInit"}
    /\ ~destroyed
    /\ LET r == restart(RestartState, level, blueBall, orangeBall, scale,
                        heightOffset)
       IN  /\ lineSegments' = r.segs
           /\ bodies' = r.world
           /\ levelComplete' = r.lc
           /\ showVictoryAnimation' = r.sva
           /\ last' = [Last("restart") EXCEPT
                         !.error = r.error,
                         !.wasComplete = levelComplete,
                         !.undone = /\ lineSegments # <<>>
                                    /\ blueBall # NoBody
                                    /\ bodies[blueBall].angle # 0]
    /\ UNCHANGED <<linkVars, call, pc, destroyed, level, hasNextLevel, nav, viewport, engine,
                   handlerEngine, blueBall, orangeBall, scale, heightOffset,
                   isDrawing, drawingPoints, hideTimers, resizeTimeout,
                   listening, animationFrameId, loopPending, storage,
                   completeCalls>>

(***************************************************************************)
(* Specifications.                                                         *)
(***************************************************************************)
\* Spec: every handler; a stroke starts while fewer than MaxLive obstacles
\* are alive.
Next ==
    \/ \E param \in RouteParams : ngOnInit(param)
    \/ ngAfterViewInit
    \/ InitDelay
    \/ InitFinish
    \/ ngOnDestroy
    \/ renderLoop
    \/ HideTimer
    \/ \E p \in EndPts : Len(lineSegments) < MaxLive /\ onPointerDown(p)
    \/ \E p \in EndPts : Len(drawingPoints) < SessionPoints /\ onPointerMove(p)
    \/ \E poly \in PolyOutcomes : onPointerUp(poly)
    \/ \E sz \in Sizes : onResize(sz)
    \/ ResizeObserved
    \/ ResizeTimer
    \/ Restart

Spec == Init /\ [][Next]_vars

\* SpecBudget: level load, strokes and restart, with no bound on the number
\* of live obstacles.
NextBudget ==
    \/ \E param \in RouteParams : ngOnInit(param)
    \/ ngAfterViewInit
    \/ InitDelay
    \/ InitFinish
    \/ \E p \in Pts : onPointerDown(p)
    \/ \E p \in Pts : Len(drawingPoints) < MaxPoints /\ onPointerMove(p)
    \/ \E poly \in PolyOutcomes : onPointerUp(poly)
    \/ Restart

SpecBudget == Init /\ [][NextBudget]_vars

\* SpecGeom: one call of simplifyPoints, removeClosePoints,
\* createPolygonFromLine or createRectangleSegments on a point sequence of
\* at most MaxGeomLen points.  param is the tolerance or minimum distance in
\* tenths of a unit, or the thickness in 1/Fine of a unit; count is the size
\* of the obstacle set when createRectangleSegments is entered.
GeomPts == {<<0, 0>>, <<4, 0>>, <<10, 0>>, <<8, 3>>}

\* points for createPolygonFromLine, in 1/Fine of a unit: 0.05 and 0.1 from
\* the origin, and 5 units from it
RibbonPts == {<<0, 0>>, <<1, 0>>, <<2, 0>>, <<60, 80>>}

\* sizes of the obstacle set: empty, two below the maximum, full
GeomCounts == {0, MAX_SEGMENTS - 2, MAX_SEGMENTS}

GeomParams == {1, CloseDistance, SimplifyTolerance}

GeomInputs ==
    UNION {[1..n -> GeomPts] : n \in 0..MaxGeomLen}

RibbonInputs ==
    UNION {[1..n -> RibbonPts] : n \in 0..MaxGeomLen}

\* an obstacle set of n bodies and the world that holds them
SegsOf(n) == [i \in 1..n |-> i]

WorldOf(n) == WorldAdd(EmptyWorld, SegsOf(n), Pose("line", 0, 0))

gameVars == <<pc, destroyed, level, hasNextLevel, nav, viewport, engine,
              handlerEngine, bodies, blueBall, orangeBall, scale,
              heightOffset, lineSegments, isDrawing, drawingPoints,
              levelComplete, showVictoryAnimation, hideTimers, resizeTimeout,
              listening, animationFrameId, loopPending, completeCalls, last,
              linkVars>>

pageVars == <<gameVars, storage>>

InitGeom ==
    /\ PageInit
    /\ storage \in InitStorage
    /\ \/ \E points \in GeomInputs, param \in GeomParams :
             call = [NoCall EXCEPT !.points = points, !.param = param]
       \/ \E points \in RibbonInputs :
             call = [NoCall EXCEPT !.points = points,
                                   !.param = Fine * (SEGMENT_THICKNESS \div 2)]
       \/ \E points \in GeomInputs, count \in GeomCounts :
             call = [NoCall EXCEPT !.points = points, !.count = count]

CallSimplifyPoints ==
    /\ call.fn = "none"
    /\ call' = [call EXCEPT !.fn = "simplifyPoints",
                            !.out = simplifyPoints(call.points, call.param)]
    /\ UNCHANGED pageVars

CallRemoveClosePoints ==
    /\ call.fn = "none"
    /\ call' = [call EXCEPT !.fn = "removeClosePoints",
                            !.out = removeClosePoints(call.points, call.param)]
    /\ UNCHANGED pageVars

CallCreatePolygonFromLine ==
    /\ call.fn = "none"
    /\ call' = [call EXCEPT
                  !.fn = "createPolygonFromLine",
                  !.out = createPolygonFromLine(call.points, call.param)]
    /\ UNCHANGED pageVars

\* createRectangleSegments on an obstacle set of call.count bodies: out is
\* the obstacle set and the world after the call, with the segments that
\* were given a rectangle
CallCreateRectangleSegments ==
    /\ call.fn = "none"
    /\ call' = [call EXCEPT
                  !.fn = "createRectangleSegments",
                  !.out = createRectangleSegments(call.points,
                              SegsOf(call.count), WorldOf(call.count))]
    /\ UNCHANGED pageVars

NextGeom ==
    \/ CallSimplifyPoints
    \/ CallRemoveClosePoints
    \/ CallCreatePolygonFromLine
    \/ CallCreateRectangleSegments

SpecGeom == InitGeom /\ [][NextGeom]_vars

\* SpecProgress: calls of ProgressService.completeLevel and resetProgress
\* on a storage that starts without the item.  call.param is the level id
\* and call.out the completed list before the call.
resetProgress(st) == NoItem

LevelIds == {LEVELS[i].id : i \in 1..Len(LEVELS)}

InitProgress == PageInit /\ storage = NoItem /\ call = NoCall

CallCompleteLevel(levelId) ==
    /\ storage' = completeLevel(storage, levelId)
    /\ call' = [NoCall EXCEPT !.fn = "completeLevel", !.param = levelId,
                              !.out = getCompletedLevels(storage)]
    /\ UNCHANGED gameVars

CallResetProgress ==
    /\ storage' = resetProgress(storage)
    /\ call' = [NoCall EXCEPT !.fn = "resetProgress",
                              !.out = getCompletedLevels(storage)]
    /\ UNCHANGED gameVars

NextProgress ==
    \/ \E levelId \in LevelIds : CallCompleteLevel(levelId)
    \/ CallResetProgress

SpecProgress == InitProgress /\ [][NextProgress]_vars

(***************************************************************************)
(* The constraint-linked page: the GamePage whose createLineSegments makes *)
(* a chain of rectangle bodies joined by constraints.  Its ngOnInit and    *)
(* its pointer-down and pointer-move handlers are those above.             *)
(***************************************************************************)
\* setupCanvas: the logical canvas size for a window size
setupCanvasLinked(vp) == [w |-> vp.w, h |-> vp.h - HeaderHeight]

\* initPhysics(): a new world with the platforms and the two balls, scaled
\* by Math.min(scaleX, scaleY)
initPhysicsLinked(lv, vp) ==
    LET logical == setupCanvasLinked(vp)
        sc == IF logical.w * lv.height <= logical.h * lv.width
              THEN [n |-> logical.w, d |-> lv.width]
              ELSE [n |-> logical.h, d |-> lv.height]
        k == Len(lv.staticBodies)
        ids == FreshIds({}, k + 2)
        blue == ids[k + 1]
        orange == ids[k + 2]
    IN  [world |->
            [b \in Range(ids) |->
                IF b = blue
                THEN Pose("circle", Mul(lv.blueBall.x, sc), Mul(lv.blueBall.y, sc))
                ELSE IF b = orange
                THEN Pose("circle", Mul(lv.orangeBall.x, sc),
                          Mul(lv.orangeBall.y, sc))
                ELSE LET i == CHOOSE j \in 1..k : ids[j] = b
                     IN  Pose("static", Mul(lv.staticBodies[i].x, sc),
                              Mul(lv.staticBodies[i].y, sc))],
         blueBall |-> blue, orangeBall |-> orange, scale |-> sc]

\* the bodies that the constraints of a world refer to
Linked(cons) ==
    UNION {{cons[c].bodyA, cons[c].bodyB} : c \in DOMAIN cons}

\* the constraints the loop creates for the new segments: one for each
\* segment after the first, from the segment pushed before it
Links(newSegments) ==
    [t \in 1..(Len(newSegments) - 1) |->
        [bodyA |-> newSegments[t], bodyB |-> newSegments[t + 1]]]

\* createLineSegments() of the constraint-linked page: the obstacle set, the
\* world's bodies and constraints and the tracking list after the call.
\* New bodies and constraints get identities that nothing refers to.
createLineSegmentsLinked(points, segs, world, cons, lineCons) ==
    LET filteredPoints == removeClosePoints(points, 10 * MIN_SEGMENT_LENGTH)
        made == RectLoop(filteredPoints, 1, Len(segs))
        newSegments == FreshIds(DOMAIN world \cup Range(segs) \cup Linked(cons),
                                Len(made))
        links == Links(newSegments)
        newConstraints == FreshIds(DOMAIN cons \cup Range(lineCons), Len(links))
        same == [segs |-> segs, world |-> world, cons |-> cons,
                 lineCons |-> lineCons]
    IN  IF Len(points) < 2 THEN same
        ELSE IF Len(segs) >= MAX_SEGMENTS THEN same
        ELSE IF Len(filteredPoints) < 2 THEN same
        ELSE [segs |-> segs \o newSegments,
              world |-> WorldAdd(world, newSegments, Pose("line", 0, 0)),
              cons |-> [c \in DOMAIN cons \cup Range(newConstraints) |->
                          IF c \in Range(newConstraints)
                          THEN links[CHOOSE t \in 1..Len(links) :
                                        newConstraints[t] = c]
                          ELSE cons[c]],
              lineCons |-> lineCons \o newConstraints]

\* restart() of the constraint-linked page on st = [segs, world, lc, error]
restartLinked(st, lev, blue, orange, sc) ==
    LET world1 == WorldRemove(st.world, Range(st.segs))
        s == IF sc.n = 0 THEN [n |-> 1, d |-> 1] ELSE sc      \* scale || 1
        Reset(w, b, ball) ==
            [w EXCEPT ![b] = [@ EXCEPT !.x = Mul(ball.x, s),
                                       !.y = Mul(ball.y, s),
                                       !.vx = 0, !.vy = 0, !.angle = 0]]
    IN  IF lev = 0
        THEN [segs |-> <<>>, world |-> world1, lc |-> FALSE, error |-> FALSE]
        ELSE IF blue = NoBody
        THEN [segs |-> <<>>, world |-> world1, lc |-> st.lc, error |-> TRUE]
        ELSE [segs |-> <<>>,
              world |-> Reset(Reset(world1, blue, Lvl(lev).blueBall),
                              orange, Lvl(lev).orangeBall),
              lc |-> FALSE, error |-> FALSE]

\* Engine.update in a frame of the constraint-linked page, with motion d;
\* win: the collisionStart event holds a pair of the two balls, so that
\* onLevelComplete runs
FrameLinked(d, win) ==
    /\ bodies' = EngineUpdate(bodies, blueBall, orangeBall, d)
    /\ IF win /\ ~levelComplete
       THEN /\ completeCalls < MaxWins
            /\ levelComplete' = TRUE
            /\ storage' = completeLevel(storage, level)
            /\ completeCalls' = completeCalls + 1
       ELSE UNCHANGED <<levelComplete, storage, completeCalls>>

\* ngAfterViewInit: setupCanvas, initPhysics, setupDrawing,
\* setupCollisionDetection and startRenderLoop, which runs the first frame
ngAfterViewInitLinked ==
    /\ pc = "onInit"
    /\ IF level = 0
       THEN /\ pc' = "idle"
            /\ last' = Last("other")
            /\ UNCHANGED <<engine, handlerEngine, bodies, blueBall, orangeBall,
                           scale, levelComplete, storage, completeCalls,
                           listening, animationFrameId, loopPending>>
       ELSE LET ph == initPhysicsLinked(Lvl(level), viewport)
            IN  /\ \E d \in Motions, win \in BOOLEAN :
                      /\ bodies' = EngineUpdate(ph.world, ph.blueBall,
                                                ph.orangeBall, d)
                      /\ IF win
                         THEN /\ levelComplete' = TRUE
                              /\ storage' = completeLevel(storage, level)
                              /\ completeCalls' = completeCalls + 1
                         ELSE UNCHANGED <<levelComplete, storage,
                                          completeCalls>>
                /\ blueBall' = ph.blueBall
                /\ orangeBall' = ph.orangeBall
                /\ scale' = ph.scale
                /\ engine' = EngineCreate(handlerEngine)
                /\ handlerEngine' = EngineCreate(handlerEngine)
                /\ listening' = TRUE
                /\ animationFrameId' = 1
                /\ loopPending' = TRUE
                /\ pc' = "running"
                /\ last' = Last("frame")
    /\ UNCHANGED <<linkVars, call, destroyed, level, hasNextLevel, nav, viewport,
                   heightOffset, lineSegments, isDrawing, drawingPoints,
                   showVictoryAnimation, hideTimers, resizeTimeout>>

\* one renderLoop callback
renderLoopLinked ==
    /\ loopPending
    /\ \E d \in Motions, win \in BOOLEAN : FrameLinked(d, win)
    /\ last' = Last("frame")
    /\ UNCHANGED <<linkVars, call, pc, destroyed, level, hasNextLevel, nav,
                   viewport, engine, handlerEngine, blueBall, orangeBall,
                   scale, heightOffset, lineSegments, isDrawing,
                   drawingPoints, showVictoryAnimation, hideTimers,
                   resizeTimeout, listening, animationFrameId, loopPending>>

\* pointerup and pointercancel
onPointerUpLinked ==
    /\ listening
    /\ isDrawing
    /\ LET r == createLineSegmentsLinked(drawingPoints, lineSegments, bodies,
                                         constraints, lineConstraints)
       IN  /\ lineSegments' = r.segs
           /\ bodies' = r.world
           /\ constraints' = r.cons
           /\ lineConstraints' = r.lineCons
    /\ isDrawing' = FALSE
    /\ drawingPoints' = <<>>
    /\ last' = Last("pointerUp")
    /\ UNCHANGED <<call, pc, destroyed, level, hasNextLevel, nav, viewport,
                   engine, handlerEngine, blueBall, orangeBall, scale,
                   heightOffset, levelComplete, showVictoryAnimation,
                   hideTimers, resizeTimeout, listening, animationFrameId,
                   loopPending, storage, completeCalls>>

RestartLinked ==
    /\ pc \notin {"constructed", "onInit"}
    /\ LET r == restartLinked([segs |-> lineSegments, world |-> bodies,
                               lc |-> levelComplete, error |-> FALSE],
                              level, blueBall, orangeBall, scale)
       IN  /\ lineSegments' = r.segs
           /\ bodies' = r.world
           /\ levelComplete' = r.lc
           /\ last' = [Last("restart") EXCEPT
                         !.error = r.error,
                         !.wasComplete = levelComplete,
                         !.undone = lineSegments # <<>>]
    /\ UNCHANGED <<linkVars, call, pc, destroyed, level, hasNextLevel, nav,
                   viewport, engine, handlerEngine, blueBall, orangeBall,
                   scale, heightOffset, isDrawing, drawingPoints,
                   showVictoryAnimation, hideTimers, resizeTimeout, listening,
                   animationFrameId, loopPending, storage, completeCalls>>

\* SpecLinked: the constraint-linked page; a stroke starts while fewer than
\* MaxLinks constraints are tracked and fewer than MaxLinkedLive obstacles
\* are alive.
NextLinked ==
    \/ \E param \in RouteParams : ngOnInit(param)
    \/ ngAfterViewInitLinked
    \/ renderLoopLinked
    \/ \E p \in Pts : /\ Len(lineConstraints) < MaxLinks
                       /\ Len(lineSegments) < MaxLinkedLive
                       /\ onPointerDown(p)
    \/ \E p \in Pts : Len(drawingPoints) < MaxLinkedPoints /\ onPointerMove(p)
    \/ onPointerUpLinked
    \/ RestartLinked

SpecLinked == Init /\ [][NextLinked]_vars

\* SpecLevels: a page is opened on a route, levels are recorded as completed
\* and nextLevel() is invoked.  The route parameters are the ids from 0 to
\* one past the number of levels, a missing id and a text that is no number.
\* Of nextLevel, call.param is the id passed to router.navigate and call.out
\* the text of the route parameter it becomes.
LevelRouteParams ==
    {NumberChars(i) : i \in 0..(Len(LEVELS) + 1)} \cup {<<>>, <<"x">>}

nextLevel ==
    /\ pc = "onInit"
    /\ level # 0
    /\ LET nextLevelId == level + 1
       IN  /\ nav' = "game"
           /\ call' = [NoCall EXCEPT !.fn = "nextLevel",
                                     !.param = nextLevelId,
                                     !.out = NumberChars(nextLevelId)]
    /\ last' = Last("other")
    /\ UNCHANGED <<linkVars, pc, destroyed, level, hasNextLevel, viewport, engine,
                   handlerEngine, bodies, blueBall, orangeBall, scale,
                   heightOffset, lineSegments, isDrawing, drawingPoints,
                   levelComplete, showVictoryAnimation, hideTimers,
                   resizeTimeout, listening, animationFrameId, loopPending,
                   storage, completeCalls>>

NextLevels ==
    \/ \E param \in LevelRouteParams : ngOnInit(param)
    \/ nextLevel
    \/ \E levelId \in LevelIds : CallCompleteLevel(levelId)
    \/ CallResetProgress

SpecLevels == InitProgress /\ [][NextLevels]_vars

(***************************************************************************)
(* Properties.                                                             *)
(***************************************************************************)

\* C1: in every reachable state the obstacle set lineSegments holds at most
\* MAX_SEGMENTS (50) bodies, strokes on the polygon path with several
\* bodies returned by Bodies.fromVertices included.
C1_BudgetNeverExceeded ==
    Len(lineSegments) <= MAX_SEGMENTS

\* the session is Playing: loaded, not torn down, no win signalled
Playing == pc = "running" /\ ~destroyed /\ ~levelComplete

\* the pose initPhysics gives a ball of the level under the stored scale
StartPose(ball) ==
    Pose("circle", Mul(ball.x, scale), Mul(ball.y, scale) + heightOffset)

StaticBodies(world) == {b \in DOMAIN world : world[b].kind = "static"}

\* C2: once levelComplete is set, no step calls completeLevel, writes the
\* completion record, schedules another hide timer or shows the victory
\* animation again, as long as levelComplete stays set; and no step, however
\* many ball pairs its batch holds, makes more than one call.
C2_WinIsOneShot ==
    [][ /\ levelComplete
           => /\ completeCalls' = completeCalls
              /\ storage' = storage
              /\ hideTimers' <= hideTimers
              /\ (showVictoryAnimation' => showVictoryAnimation)
        /\ completeCalls' <= completeCalls + 1
        /\ hideTimers' <= hideTimers + 1 ]_vars

\* C2 witness: the handler ran on a batch with a ball pair while the win had
\* already been signalled.
C2_Witness ==
    /\ last.op = "frame"
    /\ last.ballPair /\ last.delivered /\ last.wasComplete
    /\ levelComplete /\ completeCalls = 1

\* C3: when the collisionStart handler runs on a batch, levelComplete becomes
\* set exactly when the batch holds the pair {blueBall, orangeBall}, in
\* either order; a batch of other pairs leaves levelComplete as it was.
C3_WinPairOnly ==
    [][ last'.op = "frame"
        => /\ (levelComplete' # levelComplete => last'.ballPair)
           /\ (last'.ballPair /\ last'.delivered => levelComplete') ]_vars

\* C3 witness: a delivered batch with a ball pair set levelComplete.
C3_Witness ==
    /\ last.op = "frame"
    /\ last.ballPair /\ last.delivered /\ ~last.wasComplete
    /\ levelComplete

\* C4: while Playing, a physics step whose batch holds a contact of the two
\* balls of the world being stepped makes the session Complete, also after
\* a resize has rebuilt the world.
C4_FirstContactWins ==
    [][ Playing /\ last'.op = "frame" /\ last'.ballPair
        => levelComplete' ]_vars

\* C5: restart() that completes leaves both balls at their start poses
\* (stored scale and offset, zero velocity, zero angle), lineSegments empty,
\* none of the former obstacles in the world, and every static body as it
\* was.
C5_RestartRestoresPose ==
    [][ last'.op = "restart" /\ ~last'.error /\ level # 0
        => /\ bodies'[blueBall] = StartPose(Lvl(level).blueBall)
           /\ bodies'[orangeBall] = StartPose(Lvl(level).orangeBall)
           /\ lineSegments' = <<>>
           /\ Range(lineSegments) \cap DOMAIN bodies' = {}
           /\ StaticBodies(bodies') = StaticBodies(bodies)
           /\ \A b \in StaticBodies(bodies) : bodies'[b] = bodies[b]
           /\ Cardinality(StaticBodies(bodies')) = Len(Lvl(level).staticBodies)
      ]_vars

\* C5 witness: restart removed obstacles and put back a ball that had moved.
C5_Witness ==
    /\ last.op = "restart" /\ ~last.error /\ last.undone
    /\ lineSegments = <<>>
    /\ bodies[blueBall].angle = 0

\* C6: in every state of the session restart() completes normally, and a
\* second restart() right after it changes nothing.
C6_RestartSafeIdempotent ==
    last.op = "restart"
    => /\ ~last.error
       /\ restart(RestartState, level, blueBall, orangeBall, scale,
                  heightOffset) = RestartState

\* C7: levelComplete goes from true to false only in a step of restart().
C7_OnlyRestartLeavesComplete ==
    [][ levelComplete /\ ~levelComplete' => last'.op = "restart" ]_vars

\* C7 witness: restart() took the session from Complete back to Playing.
C7_Witness ==
    /\ last.op = "restart" /\ last.wasComplete
    /\ ~levelComplete /\ completeCalls >= 1

\* C8 as stated: a session calls completeLevel at most once (and once when
\* the balls touched), whatever restarts happen.
C8_OncePerSession ==
    /\ completeCalls <= 1
    /\ (levelComplete /\ level # 0 => completeCalls = 1)

\* C8 amended: completeLevel is called exactly once for each change of
\* levelComplete from false to true, and at no other step.
C8_OncePerWin ==
    [][ /\ completeCalls' # completeCalls
           => /\ ~levelComplete /\ levelComplete'
              /\ completeCalls' = completeCalls + 1
              /\ last'.op = "frame"
        /\ ~levelComplete /\ levelComplete' /\ level # 0
           => completeCalls' = completeCalls + 1 ]_vars

\* C8 witness: a second win after a restart made a second call.
C8_Witness ==
    /\ completeCalls = 2
    /\ levelComplete
    /\ last.op = "frame" /\ last.ballPair /\ ~last.wasComplete

\* C9: a level id recorded as completed stays recorded over every step.
C9_RecordAppendOnly ==
    [][ storage' # storage
        => \A id \in 1..Len(LEVELS) :
              isLevelCompleted(storage, id) => isLevelCompleted(storage', id)
      ]_vars

\* C9 witness: a win recorded a level next to one recorded before the
\* session, and a restart followed.
C9_Witness ==
    /\ isLevelCompleted(storage, 3) /\ isLevelCompleted(storage, 1)
    /\ last.op = "restart"

\* C10: no exception leaves createLineSegments; when Bodies.fromVertices
\* throws, returns a falsy value or an empty array, the stroke is built by
\* createRectangleSegments on the cleaned points, and the handler finishes
\* (the buffer is cleared).
C10_FallbackToRectangles ==
    [][ last'.op = "pointerUp"
        => /\ ~last'.error
           /\ drawingPoints' = <<>>
           /\ last'.poly \in {"throws", "null", "empty"}
              => LET cleaned == removeClosePoints(
                                    simplifyPoints(drawingPoints, SimplifyTolerance),
                                    CloseDistance)
                     made == RectLoop(cleaned, 1, Len(lineSegments))
                 IN  /\ last'.path = "rect"
                     /\ Len(lineSegments') = Len(lineSegments) + Len(made)
                     /\ Range(lineSegments') \subseteq DOMAIN bodies'
      ]_vars

\* C10 witness: Bodies.fromVertices threw and the stroke became rectangles.
C10_Witness ==
    /\ last.op = "pointerUp" /\ last.poly = "throws" /\ last.path = "rect"
    /\ ~last.error
    /\ Len(lineSegments) > 0

\* s is a prefix of t
IsPrefix(s, t) == Len(s) <= Len(t) /\ \A i \in 1..Len(s) : t[i] = s[i]

\* the step is a pointer-up (or pointer-cancel) that ends a stroke
StrokeEnds == isDrawing /\ ~isDrawing' /\ last'.op = "pointerUp"

\* C11: the end of a stroke, whatever becomes of its conversion (rejected,
\* Bodies.fromVertices failing, budget reached), at most appends obstacle
\* bodies: the two balls and their poses, every body already in the world
\* (platforms and earlier obstacles), the obstacles already in the set, the
\* engine the contact handler listens on and levelComplete stay as they
\* were; a rejected stroke changes neither the set nor the world.
C11_FailedStrokeOnlyAppends ==
    [][ StrokeEnds
        => /\ blueBall' = blueBall /\ orangeBall' = orangeBall
           /\ \A b \in DOMAIN bodies :
                  b \in DOMAIN bodies' /\ bodies'[b] = bodies[b]
           /\ IsPrefix(lineSegments, lineSegments')
           /\ DOMAIN bodies' \ DOMAIN bodies
                  = Range(lineSegments') \ Range(lineSegments)
           /\ engine' = engine /\ handlerEngine' = handlerEngine
           /\ levelComplete' = levelComplete
           /\ completeCalls' = completeCalls
           /\ last'.path = "rejected"
                  => lineSegments' = lineSegments /\ bodies' = bodies
      ]_vars

\* C11 witness: Bodies.fromVertices returned nothing usable for a stroke
\* drawn while the set already held obstacles, and the stroke was appended
\* to them as rectangles.
C11_Witness ==
    /\ last.op = "pointerUp" /\ last.poly \in {"null", "empty"}
    /\ last.path = "rect"
    /\ Len(lineSegments) >= 3

\* C12: with MAX_SEGMENTS (50) or more bodies in the obstacle set, the end
\* of a stroke of any length creates no body, adds nothing to the world,
\* leaves the obstacle set as it was and raises no error.
C12_FullBudgetIgnoresStroke ==
    [][ StrokeEnds /\ Len(lineSegments) >= MAX_SEGMENTS
        => /\ lineSegments' = lineSegments
           /\ bodies' = bodies
           /\ last'.path = "rejected"
           /\ last'.poly = "none"
           /\ ~last'.error
      ]_vars

\* C12 witness: a stroke of two or more buffered points ended while the set
\* held exactly MAX_SEGMENTS bodies.
C12_Witness ==
    /\ last.op = "pointerUp" /\ ~last.single
    /\ last.path = "rejected"
    /\ Len(lineSegments) = MAX_SEGMENTS

\* C13: a stroke that ends with one buffered point (every move was dropped
\* by the movement filter, or there was none) creates no obstacle and
\* leaves the obstacle set, the world, the balls and the win state as they
\* were; after it the stroke buffer is empty and no stroke is in progress.
C13_SinglePointStroke ==
    [][ StrokeEnds /\ Len(drawingPoints) = 1
        => /\ lineSegments' = lineSegments
           /\ bodies' = bodies
           /\ blueBall' = blueBall /\ orangeBall' = orangeBall
           /\ levelComplete' = levelComplete
           /\ completeCalls' = completeCalls
           /\ last'.path = "rejected"
           /\ drawingPoints' = <<>>
           /\ ~isDrawing'
      ]_vars

\* C13 witness: a stroke of one buffered point ended and was rejected.
C13_Witness ==
    /\ last.op = "pointerUp" /\ last.single
    /\ last.path = "rejected"
    /\ drawingPoints = <<>> /\ ~isDrawing

\* C14: once ngOnDestroy has run, no frame callback body and no physics
\* step runs again and the world is not rebuilt, whatever was pending at
\* teardown (the 200 ms initialisation timer and its two frame callbacks, a
\* frame callback of the render loop, the debounced resize timer).
C14_NothingRunsAfterTeardown ==
    [][ destroyed
        => /\ last'.op # "frame"
           /\ bodies' = bodies
           /\ engine' = engine
           /\ ~loopPending'
      ]_vars

\* the step (re)creates the physics world: the initialisation callback, or
\* the resize timer that onResize armed
WorldRecreated ==
    \/ pc = "raf2" /\ pc' = "running"
    \/ resizeTimeout = "reinit" /\ resizeTimeout' = "none" /\ ~destroyed'

\* C15: when ngOnInit finds no id in the route, or an id of no level, it
\* leaves the page without a level and navigates to the home screen; and a
\* page without a level never has a physics world, input listeners or a
\* frame loop.
C15_NoLevelNoSession ==
    /\ [][ last'.op = "onInit" /\ last'.route \in {"missing", "unmatched"}
           => level' = 0 /\ nav' = "home" ]_vars
    /\ [](level = 0 => /\ engine = 0 /\ bodies = EmptyWorld
                       /\ ~listening /\ ~loopPending
                       /\ pc \in {"constructed", "onInit", "idle"})

\* C16: every step that (re)creates the physics world, the one a window
\* resize triggers included, leaves the obstacle set empty.
C16_ReloadClearsObstacles ==
    [][ WorldRecreated => lineSegments' = <<>> ]_vars

\* C17: every body of the obstacle set is a body of the world the engine
\* steps, and a body of the set leaves that world only in a restart() step.
C17_ObstaclesLiveInWorld ==
    /\ [](Range(lineSegments) \subseteq DOMAIN bodies)
    /\ [][ (\E b \in Range(lineSegments) :
               b \in DOMAIN bodies /\ b \notin DOMAIN bodies')
           => last'.op = "restart" ]_vars

\* twice the signed area of the triangle p, q, r
Cross(p, q, r) ==
    (q[1] - p[1]) * (r[2] - p[2]) - (q[2] - p[2]) * (r[1] - p[1])

\* all points of the sequence lie on one straight line
Collinear(points) ==
    \A i, j, k \in 1..Len(points) :
        Cross(points[i], points[j], points[k]) = 0

RECURSIVE SubseqFrom(_, _, _, _)
\* s from index i on is an order-preserving subsequence of t from index j on
SubseqFrom(s, t, i, j) ==
    IF i > Len(s) THEN TRUE
    ELSE IF j > Len(t) THEN FALSE
    ELSE IF s[i] = t[j] THEN SubseqFrom(s, t, i + 1, j + 1)
    ELSE SubseqFrom(s, t, i, j + 1)

IsSubseq(s, t) == SubseqFrom(s, t, 1, 1)

\* the stroke comes back to its first point after its second point
RevisitsFirst(points) ==
    \E j \in 3..Len(points) : points[j] = points[1]

\* C18 as stated: for N >= 2 collinear points and a tolerance > 0,
\* simplifyPoints returns exactly the first and the last point.
C18_CollinearGivesEndpoints ==
    call.fn = "simplifyPoints" /\ Len(call.points) >= 2
        /\ Collinear(call.points) /\ call.param > 0
    => call.out = <<call.points[1], call.points[Len(call.points)]>>

\* C18, amended: for N >= 2 collinear points of which none after the second
\* is the first point again, and a tolerance > 0, simplifyPoints returns
\* exactly the first and the last point; when a later point is the first
\* point again, it returns more than two points.
C18_CollinearNoRevisit ==
    call.fn = "simplifyPoints" /\ Len(call.points) >= 2
        /\ Collinear(call.points) /\ call.param > 0
    => IF RevisitsFirst(call.points)
       THEN Len(call.out) > 2
       ELSE call.out = <<call.points[1], call.points[Len(call.points)]>>

\* C18 witness: four collinear points, two of them distinct interior ones,
\* were reduced to the first and the last.
C18_Witness ==
    /\ call.fn = "simplifyPoints" /\ Len(call.points) = 4
    /\ Collinear(call.points) /\ ~RevisitsFirst(call.points)
    /\ call.points[2] # call.points[3]
    /\ call.points[1] # call.points[4]
    /\ call.out = <<call.points[1], call.points[4]>>

\* C19: the output of simplifyPoints is an order-preserving subsequence of
\* its input; for a non-empty input it starts with the first and ends with
\* the last input point; an input of at most 2 points is returned as it is.
C19_SimplifySubsequence ==
    call.fn = "simplifyPoints"
    => /\ IsSubseq(call.out, call.points)
       /\ Len(call.points) > 0
             => /\ Len(call.out) > 0
                /\ call.out[1] = call.points[1]
                /\ call.out[Len(call.out)] = call.points[Len(call.points)]
       /\ Len(call.points) <= 2 => call.out = call.points
       /\ Len(call.points) > 2 => Len(call.out) >= 2

\* C19 witness: of four points, not all on one line, simplifyPoints dropped
\* one interior point and kept the other.
C19_Witness ==
    /\ call.fn = "simplifyPoints" /\ Len(call.points) = 4
    /\ ~Collinear(call.points)
    /\ Len(call.out) = 3

\* C20: removeClosePoints retains the first point and returns an
\* order-preserving subsequence of its input in which every two consecutive
\* points are at least minDistance apart; with the minimum distance 5.5 of
\* the program no two consecutive output points coincide.
C20_RemoveCloseSpacing ==
    call.fn = "removeClosePoints"
    => /\ IsSubseq(call.out, call.points)
       /\ Len(call.points) > 0
             => Len(call.out) > 0 /\ call.out[1] = call.points[1]
       /\ \A i \in 1..(Len(call.out) - 1) :
             /\ 100 * Dist2(call.out[i], call.out[i + 1])
                   >= call.param * call.param
             /\ call.param = CloseDistance => call.out[i] # call.out[i + 1]

\* C20 witness: with the minimum distance 5.5, a point within 5.5 of the
\* first point but not equal to it was dropped, and a later point was kept.
C20_Witness ==
    /\ call.fn = "removeClosePoints" /\ call.param = CloseDistance
    /\ Len(call.points) = 3 /\ Len(call.out) = 2
    /\ call.points[2] # call.points[1]
    /\ call.out = <<call.points[1], call.points[3]>>

\* no two consecutive points of the polyline coincide
NoZeroSegment(points) ==
    \A i \in 1..(Len(points) - 1) : points[i] # points[i + 1]

\* the segments of a polyline (in 1/Fine of a unit) that the loop of
\* createPolygonFromLine does not skip: those of length 0.1 or more
LongSegments(points) ==
    {i \in 1..(Len(points) - 1) :
        100 * Dist2(points[i], points[i + 1]) >= Fine * Fine}

\* the first segment is longer than 0.1
FirstIsLong(points) ==
    100 * Dist2(points[1], points[2]) > Fine * Fine

\* C21 as stated: for a polyline of at least 2 points without a zero-length
\* segment, createPolygonFromLine returns an even number of vertices, at
\* least 4.
C21_RibbonEvenAtLeastFour ==
    call.fn = "createPolygonFromLine" /\ Len(call.points) >= 2
        /\ NoZeroSegment(call.points)
    => Len(call.out) % 2 = 0 /\ Len(call.out) >= 4

\* C21, amended: for a polyline of at least 2 points without a zero-length
\* segment, createPolygonFromLine returns an even number of vertices; there
\* are at least 4 exactly when the first segment is longer than 0.1 or at
\* least two segments are 0.1 long or longer, and none when every segment
\* is shorter than 0.1.
C21_RibbonEvenFourIfLong ==
    call.fn = "createPolygonFromLine" /\ Len(call.points) >= 2
        /\ NoZeroSegment(call.points)
    => /\ Len(call.out) % 2 = 0
       /\ Len(call.out) >= 4
             <=> \/ FirstIsLong(call.points)
                 \/ Cardinality(LongSegments(call.points)) >= 2
       /\ LongSegments(call.points) = {} => call.out = <<>>

\* C21 witness: a polyline of three points, each segment 5 units long, gave
\* six vertices.
C21_Witness ==
    /\ call.fn = "createPolygonFromLine" /\ Len(call.points) = 3
    /\ NoZeroSegment(call.points)
    /\ Cardinality(LongSegments(call.points)) = 2
    /\ FirstIsLong(call.points)
    /\ Len(call.out) = 6

\* the k-th vertex of the top rail and of the bottom rail of a ribbon
TopRail(poly, k) == poly[k]

BottomRail(poly, k) == poly[Len(poly) + 1 - k]

\* the segment adjacent to the j-th point of a polyline: the one ending at
\* it, for the first point the first segment
Adjacent(points, j) ==
    IF j = 1 THEN <<points[1], points[2]>> ELSE <<points[j - 1], points[j]>>

\* Vertices t and b are mirror images across source point src: both are
\* offset from it by opposite vectors (so their midpoint is src), of length
\* thickness (num.num = thickness^2 * len2), perpendicular to segment seg.
Mirrored(t, b, src, seg, thickness) ==
    LET dx == seg[2][1] - seg[1][1]
        dy == seg[2][2] - seg[1][2]
    IN  /\ t.at = src /\ b.at = src
        /\ t.len2 = b.len2 /\ t.len2 = dx * dx + dy * dy
        /\ t.num[1] + b.num[1] = 0 /\ t.num[2] + b.num[2] = 0
        /\ t.num[1] * t.num[1] + t.num[2] * t.num[2]
              = thickness * thickness * t.len2
        /\ t.num[1] * dx + t.num[2] * dy = 0

\* C22 as stated: the k-th top-rail vertex and the k-th bottom-rail vertex
\* of the ribbon are mirror images across the k-th point of the polyline,
\* at distance halfThickness along the perpendicular of its adjacent
\* segment.
C22_RailsMirrorKthPoint ==
    call.fn = "createPolygonFromLine"
    => \A k \in 1..(Len(call.out) \div 2) :
          Mirrored(TopRail(call.out, k), BottomRail(call.out, k),
                   call.points[k], Adjacent(call.points, k), call.param)

\* C22, amended: the k-th top-rail vertex and the k-th bottom-rail vertex
\* are mirror images across one point of the polyline, the one both were
\* offset from, at distance halfThickness along the perpendicular of the
\* segment adjacent to that point; these points follow the stroke order,
\* and when no segment was skipped (all are longer than 0.1) the k-th pair
\* belongs to the k-th point.
C22_RailsMirrorSourcePoint ==
    call.fn = "createPolygonFromLine"
    => LET n == Len(call.out) \div 2
           N == Len(call.points)
       IN  /\ \A k \in 1..n :
                 \E j \in 1..N :
                     Mirrored(TopRail(call.out, k), BottomRail(call.out, k),
                              call.points[j], Adjacent(call.points, j),
                              call.param)
           /\ IsSubseq([k \in 1..n |-> TopRail(call.out, k).at], call.points)
           /\ (N >= 2 /\ \A i \in 1..(N - 1) :
                   100 * Dist2(call.points[i], call.points[i + 1]) > Fine * Fine)
                 => /\ n = N
                    /\ \A k \in 1..n :
                          Mirrored(TopRail(call.out, k), BottomRail(call.out, k),
                                   call.points[k], Adjacent(call.points, k),
                                   call.param)

\* C22 witness: a ribbon of thickness 4 around three points 5 units apart,
\* whose second pair of vertices lies on both sides of the second point.
C22_Witness ==
    /\ call.fn = "createPolygonFromLine" /\ Len(call.points) = 3
    /\ call.param = Fine * (SEGMENT_THICKNESS \div 2)
    /\ Len(call.out) = 6
    /\ call.out[2].at = call.points[2] /\ call.out[5].at = call.points[2]
    /\ call.out[2].num # call.out[5].num
    /\ call.out[2].len2 = 25 * Fine * Fine

\* the polyline createLineSegments builds bodies from: the stroke after
\* simplifyPoints and removeClosePoints
Cleaned(points) ==
    removeClosePoints(simplifyPoints(points, SimplifyTolerance), CloseDistance)

\* every two consecutive points are at least MIN_SEGMENT_LENGTH apart
SpacedByMinLength(points) ==
    \A i \in 1..(Len(points) - 1) :
        Dist2(points[i], points[i + 1])
            >= MIN_SEGMENT_LENGTH * MIN_SEGMENT_LENGTH

\* C23: a stroke that creates bodies creates them from non-degenerate
\* segments only: on the rectangle path every rectangle is at least
\* MIN_SEGMENT_LENGTH (5) long and each becomes one body; on the polygon
\* path the bodies come from a cleaned polyline whose consecutive points
\* are at least 5 apart.
C23_NoDegenerateSegment ==
    [][ StrokeEnds
        => LET cleaned == Cleaned(drawingPoints)
               made == RectLoop(cleaned, 1, Len(lineSegments))
           IN  /\ last'.path = "rect"
                     => /\ \A i \in 1..Len(made) :
                              Dist2(made[i][1], made[i][2])
                                  >= MIN_SEGMENT_LENGTH * MIN_SEGMENT_LENGTH
                        /\ Len(lineSegments') = Len(lineSegments) + Len(made)
               /\ last'.path = "polygon"
                     => Len(cleaned) >= 2 /\ SpacedByMinLength(cleaned)
               /\ lineSegments' # lineSegments
                     => Len(cleaned) >= 2 /\ SpacedByMinLength(cleaned)
      ]_vars

\* C23 witness: a stroke became one polygon body, the only obstacle.
C23_Witness ==
    /\ last.op = "pointerUp" /\ last.poly = "body" /\ last.path = "polygon"
    /\ Len(lineSegments) = 1

\* C24: a stroke whose cleaned polyline has at least 2 points, ended while
\* the obstacle set holds fewer than MAX_SEGMENTS bodies, adds at least one
\* body to the obstacle set and to the world, on the polygon path and on
\* the rectangle fallback alike.
C24_CleanStrokeAddsObstacle ==
    [][ StrokeEnds /\ Len(Cleaned(drawingPoints)) >= 2
                   /\ Len(lineSegments) < MAX_SEGMENTS
        => /\ Len(lineSegments') > Len(lineSegments)
           /\ Cardinality(DOMAIN bodies') > Cardinality(DOMAIN bodies)
           /\ Range(lineSegments') \subseteq DOMAIN bodies'
           /\ last'.path \in {"polygon", "rect"}
      ]_vars

\* C24 witness: Bodies.fromVertices returned an empty array and the stroke
\* still left obstacles, as rectangles.
C24_Witness ==
    /\ last.op = "pointerUp" /\ last.poly = "empty" /\ last.path = "rect"
    /\ Len(lineSegments) = 2

\* C29: on the polygon path every body Bodies.fromVertices returned is
\* added to the world and appended to the obstacle set: the set grows by
\* the number of returned parts, whatever its size before.
C29_AllPartsRegistered ==
    [][ StrokeEnds /\ last'.path = "polygon"
        => /\ last'.poly \in {"body", "array"}
           /\ last'.parts > 0
           /\ Len(lineSegments') = Len(lineSegments) + last'.parts
           /\ IsPrefix(lineSegments, lineSegments')
           /\ Cardinality(Range(lineSegments')) = Len(lineSegments')
           /\ DOMAIN bodies' = DOMAIN bodies \cup Range(lineSegments')
      ]_vars

\* C29 witness: Bodies.fromVertices returned an array of two bodies while
\* the set held MAX_SEGMENTS - 2, and both were appended.
C29_Witness ==
    /\ last.op = "pointerUp" /\ last.poly = "array" /\ last.path = "polygon"
    /\ last.parts = 2
    /\ Len(lineSegments) = MAX_SEGMENTS

\* no element occurs twice in the list
NoDuplicates(list) ==
    \A i, j \in 1..Len(list) : list[i] = list[j] => i = j

\* C25: completeLevel is idempotent: a second call with the same id leaves
\* the stored list as the first call left it, a call with an id already in
\* the list writes nothing, and the stored list never holds an id twice.
C25_CompleteLevelIdempotent ==
    /\ [](\A id \in LevelIds :
             completeLevel(completeLevel(storage, id), id)
                 = completeLevel(storage, id))
    /\ [](NoDuplicates(getCompletedLevels(storage)))
    /\ [][ call'.fn = "completeLevel"
           => /\ isLevelCompleted(storage', call'.param)
              /\ isLevelCompleted(storage, call'.param) => storage' = storage
         ]_vars

\* C25 witness: completeLevel was called with an id the list already held,
\* next to another id, and the list is as before the call.
C25_Witness ==
    /\ call.fn = "completeLevel"
    /\ call.param \in Range(call.out)
    /\ Len(call.out) >= 2
    /\ getCompletedLevels(storage) = call.out

\* the ball bodies of a world
BallBodies(world) == {b \in DOMAIN world : world[b].kind = "circle"}

\* the pose initPhysics gives the i-th platform of the level under the
\* stored scale
PlatformPose(i) ==
    LET sb == Lvl(level).staticBodies[i]
    IN  Pose("static", Mul(sb.x, scale), Mul(sb.y, scale) + heightOffset)

\* C26: once the level is loaded the world holds one static body per
\* platform of the level descriptor, at the platform's scaled place, and as
\* balls exactly the two bodies blueBall and orangeBall; restart(), the
\* end of a stroke and a physics step keep the same ball bodies and the
\* same platform bodies, the platforms unmoved.
C26_BallsAndPlatformsFixed ==
    /\ [](pc = "running"
            => /\ Cardinality(StaticBodies(bodies))
                     = Len(Lvl(level).staticBodies)
               /\ \A i \in 1..Len(Lvl(level).staticBodies) :
                     \E b \in StaticBodies(bodies) : bodies[b] = PlatformPose(i)
               /\ blueBall # orangeBall
               /\ BallBodies(bodies) = {blueBall, orangeBall})
    /\ [][ pc = "running" /\ last'.op \in {"restart", "pointerUp", "frame"}
           => /\ blueBall' = blueBall /\ orangeBall' = orangeBall
              /\ BallBodies(bodies') = BallBodies(bodies)
              /\ StaticBodies(bodies') = StaticBodies(bodies)
              /\ \A b \in StaticBodies(bodies) : bodies'[b] = bodies[b]
         ]_vars

\* C26 witness: restart() removed obstacles and put back a ball that had
\* moved, in a world of the level's platforms and the two balls.
C26_Witness ==
    /\ pc = "running" /\ last.op = "restart" /\ last.undone
    /\ Cardinality(DOMAIN bodies) = Len(Lvl(level).staticBodies) + 2
    /\ bodies[blueBall] = StartPose(Lvl(level).blueBall)

\* The reference reduction.  AnchorAt(points, tolerance, i) is the index of
\* the anchor when interior point i is examined: the last interior point
\* before i that was kept, or the first point; KeptAt says whether interior
\* point i is kept: the anchor and the next point coincide, or the point is
\* farther than the tolerance (in tenths) from the line through them.
RECURSIVE AnchorAt(_, _, _)
AnchorAt(points, tolerance, i) ==
    IF i <= 2
    THEN 1
    ELSE LET a == AnchorAt(points, tolerance, i - 1)
             A == points[a]
             P == points[i - 1]
             Q == points[i]
             c == Cross(A, Q, P)
         IN  IF A = Q \/ 100 * c * c > tolerance * tolerance * Dist2(A, Q)
             THEN i - 1
             ELSE a

KeptAt(points, tolerance, i) == AnchorAt(points, tolerance, i + 1) = i

\* the points with their index in a set, in order
RECURSIVE Select(_, _, _)
Select(points, keep, i) ==
    IF i > Len(points) THEN <<>>
    ELSE IF i \in keep THEN <<points[i]>> \o Select(points, keep, i + 1)
    ELSE Select(points, keep, i + 1)

Reference(points, tolerance) ==
    Select(points,
           {1, Len(points)}
               \cup {i \in 2..(Len(points) - 1) : KeptAt(points, tolerance, i)},
           1)

\* C27: simplifyPoints returns the single-pass reference reduction of its
\* input: the first point, the interior points that are kept when walked in
\* order with an anchor that starts at the first point and moves to each
\* kept point, and the last point.
C27_SimplifyIsReference ==
    call.fn = "simplifyPoints" /\ Len(call.points) >= 3
    => call.out = Reference(call.points, call.param)

\* C27 witness: of two interior points the first was kept, for its distance
\* from the line, and the second dropped, measured from the new anchor.
C27_Witness ==
    /\ call.fn = "simplifyPoints" /\ Len(call.points) = 4
    /\ call.points[2] # call.points[3]
    /\ Cross(call.points[1], call.points[3], call.points[2]) # 0
    /\ call.out = <<call.points[1], call.points[2], call.points[4]>>

\* the indexes in a set, in increasing order, from index i up to n
RECURSIVE IndexesIn(_, _, _)
IndexesIn(keep, i, n) ==
    IF i > n THEN <<>>
    ELSE IF i \in keep THEN <<i>> \o IndexesIn(keep, i + 1, n)
    ELSE IndexesIn(keep, i + 1, n)

\* The ribbon is made of the pairs of the points with their index in keep:
\* 2 * |keep| vertices, first the top-rail offsets of these points in stroke
\* order (the offset of a point is thickness along the perpendicular
\* (-dy, dx) of its adjacent segment), then the bottom-rail offsets (the
\* opposite vectors) in reverse stroke order.
RibbonOf(poly, points, keep, thickness) ==
    LET idx == IndexesIn(keep, 1, Len(points))
        n == Len(idx)
    IN  /\ Len(poly) = 2 * n
        /\ \A k \in 1..n :
              LET src == points[idx[k]]
                  seg == Adjacent(points, idx[k])
                  t == poly[k]
                  b == poly[2 * n + 1 - k]
              IN  /\ Mirrored(t, b, src, seg, thickness)
                  /\ t.num = <<thickness * (seg[1][2] - seg[2][2]),
                               thickness * (seg[2][1] - seg[1][1])>>

\* the segments of a polyline shorter than 0.1
ShortSegments(points) ==
    {i \in 1..(Len(points) - 1) :
        100 * Dist2(points[i], points[i + 1]) < Fine * Fine}

\* C28 as stated: createPolygonFromLine returns the pairs of all N points,
\* top rail in stroke order then bottom rail reversed, when every segment is
\* longer than 0.1; a segment shorter than 0.1 removes only its own pair of
\* vertices (the pair of the point it ends at) and the pass goes on.
C28_ShortSegmentDropsOnePair ==
    call.fn = "createPolygonFromLine" /\ Len(call.points) >= 2
    => RibbonOf(call.out, call.points,
                (1..Len(call.points))
                    \ {i + 1 : i \in ShortSegments(call.points)},
                call.param)

\* C28 amended: createPolygonFromLine returns the pairs of the points that
\* end a segment of length 0.1 or more, and of the first point when the
\* first segment is longer than 0.1, top rail in stroke order then bottom
\* rail reversed: all N pairs when every segment is longer than 0.1.  A
\* later segment shorter than 0.1 removes only the pair of its end point
\* and the pass goes on; a first segment shorter than 0.1 removes the pairs
\* of both its points, and one of exactly 0.1 the pair of the first point.
C28_RibbonPairsOfKeptPoints ==
    call.fn = "createPolygonFromLine" /\ Len(call.points) >= 2
    => LET N == Len(call.points)
           keep == {i + 1 : i \in LongSegments(call.points)}
                      \cup (IF FirstIsLong(call.points) THEN {1} ELSE {})
       IN  /\ RibbonOf(call.out, call.points, keep, call.param)
           /\ ShortSegments(call.points) = {} /\ FirstIsLong(call.points)
                 => Len(call.out) = 2 * N

\* C28 witness: a polyline of four points whose second segment is shorter
\* than 0.1 and whose other segments are longer gave the six vertices of
\* the first, second and fourth point.
C28_Witness ==
    /\ call.fn = "createPolygonFromLine" /\ Len(call.points) = 4
    /\ call.param > 0
    /\ NoZeroSegment(call.points)
    /\ ShortSegments(call.points) = {2}
    /\ FirstIsLong(call.points)
    /\ Len(call.out) = 6
    /\ call.out[3].at = call.points[4] /\ call.out[4].at = call.points[4]

\* the consecutive pairs of a polyline (in units) of length
\* MIN_SEGMENT_LENGTH or more, by the index of their first point
LongPairs(points) ==
    {i \in 1..(Len(points) - 1) :
        Dist2(points[i], points[i + 1])
            >= MIN_SEGMENT_LENGTH * MIN_SEGMENT_LENGTH}

Min(a, b) == IF a < b THEN a ELSE b

\* C30: createRectangleSegments on a polyline, with an obstacle set of
\* `count` bodies at entry, adds one rectangle per consecutive pair of
\* points of length 5 or more, in stroke order, until the set holds
\* MAX_SEGMENTS bodies: the rectangles added are those of the first
\* min(number of such pairs, MAX_SEGMENTS - count) such pairs, appended to
\* the set and added to the world, and none when every pair is shorter
\* than 5.
C30_RectanglesPerLongPair ==
    call.fn = "createRectangleSegments"
    => LET long == LongPairs(call.points)
           idx == IndexesIn(long, 1, Len(call.points) - 1)
           budget == IF call.count >= MAX_SEGMENTS THEN 0
                     ELSE MAX_SEGMENTS - call.count
           k == Min(Cardinality(long), budget)
       IN  /\ Len(call.out.segs) = call.count + k
           /\ IsPrefix(SegsOf(call.count), call.out.segs)
           /\ Cardinality(Range(call.out.segs)) = Len(call.out.segs)
           /\ DOMAIN call.out.world = Range(call.out.segs)
           /\ call.out.made
                 = [j \in 1..k |-> <<call.points[idx[j]],
                                     call.points[idx[j] + 1]>>]
           /\ long = {} => call.out.segs = SegsOf(call.count)

\* C30 witness: with two bodies of budget left, a polyline of three pairs
\* of length 5 or more got rectangles for the first two.
C30_Witness ==
    /\ call.fn = "createRectangleSegments"
    /\ call.count = MAX_SEGMENTS - 2
    /\ Cardinality(LongPairs(call.points)) = 3
    /\ Len(call.out.segs) = MAX_SEGMENTS
    /\ call.out.made = <<<<call.points[1], call.points[2]>>,
                         <<call.points[2], call.points[3]>>>>

\* the stroke buffer is empty whenever no stroke is in progress
BufferEmptyWhenIdle == ~isDrawing => drawingPoints = <<>>

\* a step in which pointer-up ends the stroke in progress
PointerUpStep == last'.op = "pointerUp"

\* the obstacle set after the step is what createLineSegments makes of the
\* buffer before it, for some outcome of Bodies.fromVertices
HandsBufferOver ==
    \E poly \in PolyOutcomes :
        LET r == createLineSegments(drawingPoints, lineSegments, bodies, poly)
        IN  lineSegments' = r.segs /\ bodies' = r.world

\* points leave the buffer: it is not extended and not left as it was
BufferDiscarded ==
    drawingPoints # <<>> /\ ~IsPrefix(drawingPoints, drawingPoints')

\* C31 as stated: the stroke buffer is empty whenever no stroke is in
\* progress, and the points of every stroke are handed to obstacle creation
\* exactly once, at pointer-up, and then cleared: buffered points leave the
\* buffer only in a pointer-up step that hands them over.
C31_StrokePointsHandedOnce ==
    /\ []BufferEmptyWhenIdle
    /\ [][ /\ PointerUpStep
               => isDrawing /\ ~isDrawing' /\ HandsBufferOver
                    /\ drawingPoints' = <<>>
           /\ BufferDiscarded => PointerUpStep ]_vars

\* C31 amended: the stroke buffer is empty whenever no stroke is in
\* progress; a stroke ends only by pointer-up (or pointer-cancel), which
\* acts only on a stroke in progress, hands the buffer to obstacle creation
\* once and clears it; buffered points leave the buffer otherwise only when
\* a pointer-down arrives during the stroke, which replaces the buffer by
\* its own point without handing the old points over.
C31_BufferEmptyUnlessDrawing ==
    /\ []BufferEmptyWhenIdle
    /\ [][ /\ PointerUpStep
               => isDrawing /\ ~isDrawing' /\ HandsBufferOver
                    /\ drawingPoints' = <<>>
           /\ isDrawing /\ ~isDrawing' => PointerUpStep
           /\ BufferDiscarded /\ ~PointerUpStep
               => /\ isDrawing /\ isDrawing' /\ ~levelComplete
                  /\ Len(drawingPoints') = 1
                  /\ lineSegments' = lineSegments /\ bodies' = bodies ]_vars

\* C31 witness: a stroke of two points has just been ended by pointer-up and
\* made an obstacle; the buffer is empty.
C31_Witness ==
    /\ last.op = "pointerUp" /\ last.path # "rejected"
    /\ ~isDrawing /\ drawingPoints = <<>>
    /\ lineSegments # <<>>

\* C32: no obstacle body is added to the obstacle set or to the world while
\* the session is Complete: a step taken with levelComplete set adds no body
\* to lineSegments, and a stroke that was in progress when the win was
\* signalled creates no obstacle at its pointer-up or pointer-cancel.
C32_NoObstacleWhileComplete ==
    [][ levelComplete
        => /\ Range(lineSegments') \subseteq Range(lineSegments)
           /\ PointerUpStep => bodies' = bodies ]_vars

\* the level data holds a level with this id
LevelExists(id) == \E i \in 1..Len(LEVELS) : LEVELS[i].id = id

\* no two entries of the level data have the same id
UniqueLevelIds ==
    \A i, j \in 1..Len(LEVELS) : LEVELS[i].id = LEVELS[j].id => i = j

\* C33: level ids in the data are unique; for every level that a page has
\* loaded, hasNextLevel is true exactly when a level with id + 1 exists;
\* and nextLevel() invoked when hasNextLevel is true navigates to the id
\* level.id + 1, whose route parameter getLevelById can load.
C33_NextLevelExists ==
    /\ UniqueLevelIds
    /\ level # 0 => (hasNextLevel <=> LevelExists(level + 1))
    /\ call.fn = "nextLevel" /\ hasNextLevel
       => /\ call.param = level + 1
          /\ getLevelById(parseInt(call.out)) = level + 1

\* C33 witness: nextLevel() was invoked on the last level but one, where
\* hasNextLevel is true, and navigated to the last level.
C33_Witness ==
    /\ call.fn = "nextLevel" /\ hasNextLevel
    /\ level = Len(LEVELS) - 1
    /\ getLevelById(parseInt(call.out)) = Len(LEVELS)

\* The step appended k segment bodies to the obstacle set and added exactly
\* k - 1 constraints to the world and to the tracking list (none for k = 0),
\* one for each two consecutive new segments, from the earlier to the later.
StrokeLinksConsecutive ==
    LET n == Len(lineSegments)
        k == Len(lineSegments') - n
        new == DOMAIN constraints' \ DOMAIN constraints
    IN  /\ IsPrefix(lineSegments, lineSegments')
        /\ DOMAIN constraints \subseteq DOMAIN constraints'
        /\ \A c \in DOMAIN constraints : constraints'[c] = constraints[c]
        /\ Cardinality(new) = IF k = 0 THEN 0 ELSE k - 1
        /\ \A t \in 1..(k - 1) :
              \E c \in new :
                  /\ constraints'[c].bodyA = lineSegments'[n + t]
                  /\ constraints'[c].bodyB = lineSegments'[n + t + 1]
        /\ IsPrefix(lineConstraints, lineConstraints')
        /\ {lineConstraints'[j] :
                j \in (Len(lineConstraints) + 1)..Len(lineConstraints')} = new
        /\ Len(lineConstraints') = Len(lineConstraints) + Cardinality(new)

\* every constraint of the world joins two bodies of the world
NoDanglingConstraint ==
    \A c \in DOMAIN constraints :
        {constraints[c].bodyA, constraints[c].bodyB} \subseteq DOMAIN bodies

\* C34: in the constraint-linked page, a stroke that creates k segment
\* bodies creates exactly k - 1 constraints, each joining two consecutive
\* segments of that stroke; and after restart() the world holds no
\* constraint that refers to a removed segment body and the constraint
\* tracking list is empty.
C34_LinksFollowSegments ==
    [][ /\ PointerUpStep => StrokeLinksConsecutive
        /\ last'.op = "restart"
           => NoDanglingConstraint' /\ lineConstraints' = <<>> ]_vars

\* C35: the victory animation is visible only while the session is Complete,
\* and the hide timer of one win never hides the animation of a later win:
\* the timers run 2 s each and fire in the order they were scheduled, so a
\* timer that hides a visible animation is the one of the current win only
\* if no other timer is left pending.
C35_TimerHidesOwnWinOnly ==
    /\ [](showVictoryAnimation => levelComplete)
    /\ [][ hideTimers' < hideTimers /\ showVictoryAnimation
           => hideTimers' = 0 ]_vars

=============================================================================
